---- MODULE Spec2Model ----
(***************************************************************************)
(* Room-allocation and payment-deadline lifecycle of the hostel portal.    *)
(*                                                                         *)
(* The document store is modelled as four collections (hostels, room       *)
(* allocations, payments, settings).  Every store call (getDocument,       *)
(* listDocuments, createDocument, updateDocument, deleteDocument) is one   *)
(* atomic step; a handler is a sequence of such steps run by a request     *)
(* process, so that requests interleave exactly at the awaits of the code. *)
(* Time is a clock counted in hours.                                       *)
(***************************************************************************)
EXTENDS Integers, Sequences, FiniteSets, TLC

VARIABLES
    hostels,        \* Hostels collection: hostel id -> stored document
    allocations,    \* RoomAllocations collection: allocation id -> document
    payments,       \* Payments collection: payment id -> document
    settingsDocs,   \* Settings collection in listing order
    nextAllocId,    \* ID.unique() for allocations
    nextPaymentId,  \* ID.unique() for payments
    clock,          \* Date.now(), in hours
    loc,            \* request process -> position and local variables
    observe,        \* whether the outcome of a finished request is kept in loc
    started         \* number of requests received so far

vars == <<hostels, allocations, payments, settingsDocs,
          nextAllocId, nextPaymentId, clock, loc, observe, started>>

-----------------------------------------------------------------------------
(* Bounds of the model. *)

MaxAllocs == 2
MaxPayments == 2
MaxClock == 3
MaxGrace == 1
MaxRoomNo == 2
MaxCapacity == 2
MaxDays == 1
MaxOps == 4

(* Program constants. *)
DefaultGraceHostelData == 168
DefaultGraceSettingsData == 24
HoursPerDay == 24

Procs == {1, 2}
Students == {"s1", "s2"}
Admins == {"admin@x.com"}
HostelId == "h1"
\* floor numbers and room prefixes are free text: "1_A" with prefix "" and "1" with
\* prefix "A_" lead to the same room id
FloorNumbers == {"1", "1_A"}
RoomPrefixes == {"A_", ""}
RoomPrefix == "A_"
RoomSuffix == ""
Receipts == {"rc1", "rc2"}

-----------------------------------------------------------------------------
(* Identifiers derived by the code. *)

\* `${prefix}${i}${suffix}`
RoomNumber(prefix, i, suffix) == prefix \o ToString(i) \o suffix

\* `${hostelId}_${floorId}_${roomNumber}`
RoomIdOf(hostelId, floorId, roomNumber) ==
    hostelId \o "_" \o floorId \o "_" \o roomNumber

\* `${hostelId}_floor_${floorNumber}`
FloorIdOf(hostelId, floorNumber) == hostelId \o "_floor_" \o floorNumber

Floor1 == FloorIdOf(HostelId, "1")
Floor2 == FloorIdOf(HostelId, "1_A")
RoomA1 == RoomIdOf(HostelId, Floor1, RoomNumber(RoomPrefix, 1, RoomSuffix))
RoomA2 == RoomIdOf(HostelId, Floor1, RoomNumber(RoomPrefix, 2, RoomSuffix))
RoomIds == {RoomA1, RoomA2}
FloorIds == {Floor1, Floor2}

-----------------------------------------------------------------------------
(* Sequence helpers. *)

Range(s) == {s[i] : i \in DOMAIN s}

RECURSIVE SumSeq(_)
SumSeq(s) == IF s = <<>> THEN 0 ELSE Head(s) + SumSeq(Tail(s))

RECURSIVE Filter(_, _)
\* Array.prototype.filter with the kept values given as a set
Filter(s, keep) ==
    IF s = <<>> THEN <<>>
    ELSE IF Head(s) \in keep THEN <<Head(s)>> \o Filter(Tail(s), keep)
         ELSE Filter(Tail(s), keep)

\* Array.prototype.findIndex, 1-based, 0 for "not found" (-1 in the code)
FindIndex(s, P(_)) ==
    IF \E i \in DOMAIN s : P(s[i])
    THEN CHOOSE i \in DOMAIN s : P(s[i]) /\ \A j \in 1..(i-1) : ~P(s[j])
    ELSE 0

\* Array.prototype.splice(index, 1)
Splice(s, i) == [k \in 1..(Len(s) - 1) |-> IF k < i THEN s[k] ELSE s[k + 1]]

-----------------------------------------------------------------------------
(* The hostel document and its floors tree. *)

\* The floors field is stored as text.  A text is either the JSON of a tree,
\* the empty string, or something JSON.parse rejects.
JSONstringify(tree) == [kind |-> "json", val |-> tree]
EmptyText == [kind |-> "empty"]
BadText == [kind |-> "bad"]

\* doc.floors || '[]'  followed by JSON.parse: ok = FALSE when it throws
JSONparse(text) ==
    IF text.kind = "json" THEN [ok |-> TRUE, val |-> text.val]
    ELSE IF text.kind = "empty" THEN [ok |-> TRUE, val |-> <<>>]
    ELSE [ok |-> FALSE]

NullHostel == [isNull |-> TRUE]
IsNull(h) == "isNull" \in DOMAIN h

NewRoom(id, number, capacity) ==
    [id |-> id, number |-> number, capacity |-> capacity, occupants |-> <<>>,
     isReserved |-> FALSE, isAvailable |-> TRUE,
     reservedBy |-> "", reservedUntil |-> -1]

\* fetchHostelById: the document with its floors parsed, or null when the
\* document is missing or its floors text does not parse (the catch block).
fetchHostelById(hs, hostelId) ==
    IF hostelId \notin DOMAIN hs THEN NullHostel
    ELSE LET doc == hs[hostelId]
             parsed == JSONparse(doc.floors)
         IN IF ~parsed.ok THEN NullHostel
            ELSE [id |-> hostelId,
                  name |-> doc.name,
                  totalCapacity |-> doc.totalCapacity,
                  currentOccupancy |-> doc.currentOccupancy,
                  floors |-> parsed.val,
                  isActive |-> doc.isActive]

\* updateHostel: only the supplied top-level fields are written
HostelFields == {"name", "totalCapacity", "currentOccupancy", "floors", "isActive"}

updateData(updates) ==
    [k \in (DOMAIN updates) \cap HostelFields |->
        IF k = "floors" THEN JSONstringify(updates.floors) ELSE updates[k]]

updateHostel(hs, hostelId, updates) ==
    LET data == updateData(updates)
        doc == hs[hostelId]
    IN [hs EXCEPT ![hostelId] =
            [k \in DOMAIN doc |-> IF k \in DOMAIN data THEN data[k] ELSE doc[k]]]

\* floors.forEach(floor => floor.rooms.forEach(room => ...)) with f applied to
\* every room
MapRooms(floors, f(_)) ==
    [i \in DOMAIN floors |->
        [floors[i] EXCEPT !.rooms = [j \in DOMAIN floors[i].rooms |-> f(floors[i].rooms[j])]]]

AllRooms(floors) ==
    UNION {Range(floors[i].rooms) : i \in DOMAIN floors}

SumCapacity(floors) ==
    SumSeq([i \in DOMAIN floors |->
        SumSeq([j \in DOMAIN floors[i].rooms |-> floors[i].rooms[j].capacity])])

\* hostel.floors.reduce(... room.occupants.length ...)
SumOccupants(floors) ==
    SumSeq([i \in DOMAIN floors |->
        SumSeq([j \in DOMAIN floors[i].rooms |-> Len(floors[i].rooms[j].occupants)])])

-----------------------------------------------------------------------------
(* The tree edits made by the handlers between their read and their write. *)

\* faulty variant: the occupant is never pushed (C3_LastWriterWins fails)
allocatePushDropped(room, studentRegNumber) == room

\* allocateRoom: room.occupants.push(studentRegNumber) and the full check
allocatePush(room, studentRegNumber) ==
    LET occ == Append(room.occupants, studentRegNumber)
    IN [room EXCEPT !.occupants = occ,
                    !.isAvailable = IF Len(occ) >= room.capacity THEN FALSE ELSE @]

allocateEdit(hostel, roomId, studentRegNumber) ==
    [hostel EXCEPT !.floors =
        MapRooms(hostel.floors,
                 LAMBDA room : IF room.id = roomId
                               THEN allocatePush(room, studentRegNumber)
                               ELSE room)]

\* faulty variant: the room is made available only when it has a free place
\* (C13_RevokeEffect fails)
revokeFilterChecked(room, studentRegNumber) ==
    LET occ == Filter(room.occupants, Students \ {studentRegNumber})
    IN [room EXCEPT !.occupants = occ,
                    !.isAvailable = IF Len(occ) < room.capacity THEN TRUE ELSE @]

\* revokeRoomAllocation: occupants.filter(o => o !== student), isAvailable = true
revokeFilter(room, studentRegNumber) ==
    [room EXCEPT !.occupants = Filter(room.occupants, Students \ {studentRegNumber}),
                 !.isAvailable = TRUE]

revokeEdit(hostel, roomId, studentRegNumber) ==
    [hostel EXCEPT !.floors =
        MapRooms(hostel.floors,
                 LAMBDA room : IF room.id = roomId
                               THEN revokeFilter(room, studentRegNumber)
                               ELSE room)]

\* reserveRoom
reserveMark(room, adminEmail, reservedUntil) ==
    [room EXCEPT !.isReserved = TRUE,
                 !.reservedBy = adminEmail,
                 !.reservedUntil = reservedUntil]

reserveEdit(hostel, roomId, adminEmail, reservedUntil) ==
    [hostel EXCEPT !.floors =
        MapRooms(hostel.floors,
                 LAMBDA room : IF room.id = roomId
                               THEN reserveMark(room, adminEmail, reservedUntil)
                               ELSE room)]

\* unreserveRoom
unreserveMark(room) ==
    [room EXCEPT !.isReserved = FALSE, !.reservedBy = "", !.reservedUntil = -1]

unreserveEdit(hostel, roomId) ==
    [hostel EXCEPT !.floors =
        MapRooms(hostel.floors,
                 LAMBDA room : IF room.id = roomId THEN unreserveMark(room) ELSE room)]

roomFound(hostel, roomId) == \E room \in AllRooms(hostel.floors) : room.id = roomId

\* addRoomsInRange: the rooms generated for start..end that the floor lacks
RECURSIVE newRoomsInRange(_, _, _, _, _, _)
newRoomsInRange(hostelId, floor, i, endNumber, prefixSuffix, capacity) ==
    IF i > endNumber THEN <<>>
    ELSE LET roomNumber == RoomNumber(prefixSuffix[1], i, prefixSuffix[2])
             roomId == RoomIdOf(hostelId, floor.id, roomNumber)
             rest == newRoomsInRange(hostelId, floor, i + 1, endNumber,
                                     prefixSuffix, capacity)
         IN IF \E r \in Range(floor.rooms) : r.number = roomNumber
            THEN rest
            ELSE <<NewRoom(roomId, roomNumber, capacity)>> \o rest

\* faulty variant: every added room counts for one place
\* (C16_AddRoomsInRange fails)
addedCapacityPerRoom(newRooms) == Len(newRooms)

\* hostel.totalCapacity += newRooms.reduce(...)
addedCapacity(newRooms) ==
    SumSeq([j \in DOMAIN newRooms |-> newRooms[j].capacity])

addRoomsEdit(hostel, floorId, startNumber, endNumber, prefixSuffix, capacity) ==
    LET fi == FindIndex(hostel.floors, LAMBDA f : f.id = floorId)
        newRooms == newRoomsInRange(hostel.id, hostel.floors[fi], startNumber,
                                    endNumber, prefixSuffix, capacity)
    IN [hostel EXCEPT !.floors[fi].rooms = @ \o newRooms,
                      !.totalCapacity = @ + addedCapacity(newRooms)]

\* addFloorToHostel
floorExists(hostel, floorNumber, floorName) ==
    \E f \in Range(hostel.floors) : f.number = floorNumber \/ f.name = floorName

addFloorEdit(hostel, floorNumber, floorName) ==
    [hostel EXCEPT !.floors =
        Append(@, [id |-> FloorIdOf(hostel.id, floorNumber),
                   number |-> floorNumber, name |-> floorName, rooms |-> <<>>])]

\* removeRoom: the room is spliced out of every floor that holds it; the
\* capacity subtracted is that of the last floor's match
removedRoomCapacity(hostel, roomId) ==
    LET hits == {i \in DOMAIN hostel.floors :
                    FindIndex(hostel.floors[i].rooms, LAMBDA r : r.id = roomId) # 0}
        last == CHOOSE i \in hits : \A j \in hits : j <= i
        ri == FindIndex(hostel.floors[last].rooms, LAMBDA r : r.id = roomId)
    IN IF hits = {} THEN 0 ELSE hostel.floors[last].rooms[ri].capacity

removeRoomEdit(hostel, roomId) ==
    [hostel EXCEPT
        !.floors = [i \in DOMAIN hostel.floors |->
            LET ri == FindIndex(hostel.floors[i].rooms, LAMBDA r : r.id = roomId)
            IN IF ri = 0 THEN hostel.floors[i]
               ELSE [hostel.floors[i] EXCEPT !.rooms = Splice(@, ri)]],
        !.totalCapacity = @ - removedRoomCapacity(hostel, roomId)]

\* removeFloor
floorIndex(hostel, floorId) == FindIndex(hostel.floors, LAMBDA f : f.id = floorId)

floorRoomIds(hostel, floorId) ==
    {r.id : r \in Range(hostel.floors[floorIndex(hostel, floorId)].rooms)}

removedFloorCapacity(hostel, floorId) ==
    LET rooms == hostel.floors[floorIndex(hostel, floorId)].rooms
    IN SumSeq([j \in DOMAIN rooms |-> rooms[j].capacity])

removeFloorEdit(hostel, floorId) ==
    [hostel EXCEPT !.floors = Splice(@, floorIndex(hostel, floorId)),
                   !.totalCapacity = @ - removedFloorCapacity(hostel, floorId)]

\* removeOccupantFromRoom
occupantInRoom(hostel, roomId, regNumber) ==
    \E room \in AllRooms(hostel.floors) :
        room.id = roomId /\ regNumber \in Range(room.occupants)

removeOccupantSplice(room, regNumber) ==
    LET oi == FindIndex(room.occupants, LAMBDA occ : occ = regNumber)
        occ == Splice(room.occupants, oi)
    IN IF oi = 0 THEN room
       ELSE [room EXCEPT !.occupants = occ,
                         !.isAvailable = IF Len(occ) < room.capacity THEN TRUE ELSE @]

removeOccupantEdit(hostel, roomId, regNumber) ==
    LET floors == MapRooms(hostel.floors,
                           LAMBDA room : IF room.id = roomId
                                         THEN removeOccupantSplice(room, regNumber)
                                         ELSE room)
    IN [hostel EXCEPT !.floors = floors,
                      !.currentOccupancy = SumOccupants(floors)]

-----------------------------------------------------------------------------
(* The RoomAllocations and Settings collections. *)

AllocIds == 1..MaxAllocs
PaymentIds == 1..MaxPayments
EmptyDocs == [x \in {} |-> 0]

\* faulty variant: the document is not deleted (C11_SweepIdempotent fails)
RemoveKept(docs, id) == docs

\* databases.deleteDocument: the collection without document id
Remove(docs, id) == [x \in (DOMAIN docs) \ {id} |-> docs[x]]

\* Query.orderDesc('allocatedAt'): later allocations first; documents with the
\* same timestamp come in creation order
RECURSIVE orderDescAllocatedAt(_, _)
orderDescAllocatedAt(allocs, ids) ==
    IF ids = {} THEN <<>>
    ELSE LET first == CHOOSE a \in ids : \A b \in ids :
                        \/ allocs[a].allocatedAt > allocs[b].allocatedAt
                        \/ allocs[a].allocatedAt = allocs[b].allocatedAt /\ a <= b
         IN <<first>> \o orderDescAllocatedAt(allocs, ids \ {first})

\* Query.limit(1000)
QueryLimit == 1000

\* fetchRoomAllocations / fetchAllRoomAllocations: the ids in listing order
fetchRoomAllocations(allocs) ==
    LET all == orderDescAllocatedAt(allocs, DOMAIN allocs)
    IN SubSeq(all, 1, IF Len(all) < QueryLimit THEN Len(all) ELSE QueryLimit)

\* fetchAllocationByStudent: id of the latest allocation of the student, 0 for null
fetchAllocationByStudent(allocs, regNumber) ==
    LET mine == orderDescAllocatedAt(allocs,
                    {a \in DOMAIN allocs : allocs[a].studentRegNumber = regNumber})
    IN IF mine = <<>> THEN 0 ELSE Head(mine)

\* updateRoomAllocation: only the supplied fields are written
updateRoomAllocation(allocs, allocationId, updates) ==
    [allocs EXCEPT ![allocationId] =
        [k \in DOMAIN allocs[allocationId] |->
            IF k \in (DOMAIN updates) \cap {"paymentStatus", "paymentDeadline", "paymentId"}
            THEN updates[k] ELSE allocs[allocationId][k]]]

\* fetchHostelSettings: the first document of the Settings listing, whatever it
\* is; the defaults when the collection is empty.  A field the document lacks
\* is undefined (absent from the record).
fetchHostelSettings(docs) ==
    IF Len(docs) > 0
    THEN [k \in (DOMAIN docs[1]) \cap {"paymentGracePeriod", "autoRevokeUnpaidAllocations"}
            |-> docs[1][k]]
    ELSE [paymentGracePeriod |-> DefaultGraceHostelData,
          autoRevokeUnpaidAllocations |-> TRUE]

HostelSettingsDocumentId == "hostel-settings"

\* getHostelSettings: the document 'hostel-settings'; value || default
getHostelSettings(docs) ==
    IF \E i \in DOMAIN docs : docs[i].id = HostelSettingsDocumentId
    THEN LET d == docs[CHOOSE i \in DOMAIN docs : docs[i].id = HostelSettingsDocumentId]
         IN [paymentGracePeriod |->
                IF "paymentGracePeriod" \in DOMAIN d /\ d.paymentGracePeriod # 0
                THEN d.paymentGracePeriod ELSE DefaultGraceSettingsData,
             autoRevokeUnpaidAllocations |->
                IF "autoRevokeUnpaidAllocations" \in DOMAIN d
                THEN d.autoRevokeUnpaidAllocations ELSE FALSE]
    ELSE [paymentGracePeriod |-> DefaultGraceSettingsData,
          autoRevokeUnpaidAllocations |-> FALSE]

\* updateDocument: the fields of data written over those of doc
Merge(doc, data) ==
    [k \in (DOMAIN doc) \cup (DOMAIN data) |->
        IF k \in DOMAIN data THEN data[k] ELSE doc[k]]

GeneratedId == "unique"

\* updateHostelSettings of appwrite-hostel-data: the first document of the
\* listing is updated, whatever it is; a new document with a generated id is
\* created when the collection is empty
updateHostelSettingsHostelData(docs, settings) ==
    IF Len(docs) > 0
    THEN [docs EXCEPT ![1] = Merge(@, settings)]
    ELSE <<Merge([id |-> GeneratedId], settings)>>

\* updateHostelSettings of appwrite-settings-data: the document
\* 'hostel-settings' is updated, or created when the update fails
updateHostelSettingsSettingsData(docs, settings) ==
    IF \E i \in DOMAIN docs : docs[i].id = HostelSettingsDocumentId
    THEN [i \in DOMAIN docs |->
            IF docs[i].id = HostelSettingsDocumentId
            THEN Merge(docs[i], settings) ELSE docs[i]]
    ELSE Append(docs, Merge([id |-> HostelSettingsDocumentId], settings))

\* settings.autoRevokeUnpaidAllocations as a condition (undefined is falsy)
autoRevoke(settings) ==
    "autoRevokeUnpaidAllocations" \in DOMAIN settings
    /\ settings.autoRevokeUnpaidAllocations

-----------------------------------------------------------------------------
(* Request processes. *)

NoSub == [pc |-> "none", studentRegNumber |-> "", roomId |-> "", hostelId |-> "",
          hostel |-> NullHostel]

Idle == [op |-> "none", pc |-> "idle",
         studentRegNumber |-> "", roomId |-> "", hostelId |-> "", floorId |-> "",
         adminEmail |-> "",
         allocationId |-> 0, paymentId |-> 0,
         settings |-> [x \in {} |-> 0],
         now |-> 0,
         hostel |-> NullHostel,
         marking |-> {},           \* updates of Promise.all not yet answered
         overdue |-> {},           \* overdueAllocations / expiredAllocations
         roomIds |-> {},           \* ids of the rooms removed
         todo |-> <<>>,            \* rest of a for..of loop over allocations
         subs |-> [a \in AllocIds |-> NoSub],   \* revokeRoomAllocation calls running
         failed |-> FALSE,
         lastOp |-> "none", lastResult |-> "none", lastCount |-> 0,
         lastNow |-> 0]            \* `now` of the call that answered last

IsIdle(p) == loc[p].pc = "idle"

\* a request arrives at an idle process
CanStart(p) == IsIdle(p) /\ started < MaxOps

\* the handler returns ("ok") or throws ("error")
Finish(l, result) ==
    IF observe
    THEN [Idle EXCEPT !.lastOp = l.op, !.lastResult = result, !.lastNow = l.now]
    ELSE Idle

FinishCount(l, result, count) ==
    IF observe
    THEN [Idle EXCEPT !.lastOp = l.op, !.lastResult = result, !.lastCount = count,
                      !.lastNow = l.now]
    ELSE Idle

SubsEnded(l) == \A a \in AllocIds : l.subs[a].pc \in {"none", "done", "failed"}
SubsDone(l) == {a \in AllocIds : l.subs[a].pc = "done"}
SubsFailed(l) == {a \in AllocIds : l.subs[a].pc = "failed"}

\* start revokeRoomAllocation(a) inside the handler
Launch(l, ids) ==
    [l EXCEPT !.subs = [a \in AllocIds |->
                            IF a \in ids THEN [NoSub EXCEPT !.pc = "get"] ELSE @[a]]]

\* What the handler does when one of its revokeRoomAllocation calls has ended.
\*   revokeRoomAllocation itself: return or rethrow;
\*   removeRoom, removeFloor: next allocation of the loop; a throw ends the loop
\*     in the inner catch and the handler returns normally;
\*   removeOccupantFromRoom: returns normally either way;
\*   checkAndUpdateOverduePayments: Promise.all, throws if any call threw;
\*   POST: Promise.allSettled, answers 200 with the number of successes.
Settle(l, a) ==
    CASE l.op = "revokeRoomAllocation" ->
            Finish(l, IF l.subs[a].pc = "failed" THEN "error" ELSE "ok")
      [] l.op \in {"removeRoom", "removeFloor"} ->
            IF l.subs[a].pc = "failed" \/ l.todo = <<>>
            THEN Finish(l, "ok")
            ELSE Launch([l EXCEPT !.todo = Tail(@), !.subs[a] = NoSub], {Head(l.todo)})
      [] l.op = "removeOccupantFromRoom" -> Finish(l, "ok")
      [] l.op = "checkAndUpdateOverduePayments" ->
            IF SubsEnded(l)
            THEN Finish(l, IF SubsFailed(l) # {} THEN "error" ELSE "ok")
            ELSE l
      [] l.op = "POST" ->
            IF SubsEnded(l)
            THEN FinishCount(l, "200", Cardinality(SubsDone(l)))
            ELSE l
      [] OTHER -> l

-----------------------------------------------------------------------------
(* revokeRoomAllocation(allocationId), one store call per step. *)

\* databases.getDocument(ROOM_ALLOCATIONS, allocationId); throws when missing
RevokeGet(p, a) ==
    /\ loc[p].subs[a].pc = "get"
    /\ LET l == IF a \in DOMAIN allocations
                THEN [loc[p] EXCEPT !.subs[a] =
                        [pc |-> "fetch",
                         studentRegNumber |-> allocations[a].studentRegNumber,
                         roomId |-> allocations[a].roomId,
                         hostelId |-> allocations[a].hostelId,
                         hostel |-> NullHostel]]
                ELSE [loc[p] EXCEPT !.subs[a] = [NoSub EXCEPT !.pc = "failed"]]
       IN loc' = [loc EXCEPT ![p] = IF l.subs[a].pc = "failed" THEN Settle(l, a) ELSE l]
    /\ UNCHANGED <<hostels, allocations, payments, settingsDocs,
                   nextAllocId, nextPaymentId, clock, observe, started>>

\* fetchHostelById(hostelId), then the edit of the local copy
RevokeFetch(p, a) ==
    /\ loc[p].subs[a].pc = "fetch"
    /\ LET s == loc[p].subs[a]
           hostel == fetchHostelById(hostels, s.hostelId)
       IN loc' = [loc EXCEPT ![p].subs[a] =
                    IF IsNull(hostel)
                    THEN [s EXCEPT !.pc = "delete"]
                    ELSE [s EXCEPT !.pc = "update",
                                   !.hostel = revokeEdit(hostel, s.roomId,
                                                         s.studentRegNumber)]]
    /\ UNCHANGED <<hostels, allocations, payments, settingsDocs,
                   nextAllocId, nextPaymentId, clock, observe, started>>

\* updateHostel(hostelId, updatedHostel)
RevokeUpdate(p, a) ==
    /\ loc[p].subs[a].pc = "update"
    /\ LET s == loc[p].subs[a]
       IN /\ hostels' = updateHostel(hostels, s.hostelId, s.hostel)
          /\ loc' = [loc EXCEPT ![p].subs[a] = [s EXCEPT !.pc = "delete",
                                                         !.hostel = NullHostel]]
    /\ UNCHANGED <<allocations, payments, settingsDocs,
                   nextAllocId, nextPaymentId, clock, observe, started>>

\* databases.deleteDocument(ROOM_ALLOCATIONS, allocationId); throws when missing
RevokeDelete(p, a) ==
    /\ loc[p].subs[a].pc = "delete"
    /\ LET found == a \in DOMAIN allocations
           l == [loc[p] EXCEPT !.subs[a].pc = IF found THEN "done" ELSE "failed"]
       IN /\ allocations' = IF found THEN Remove(allocations, a) ELSE allocations
          /\ loc' = [loc EXCEPT ![p] = Settle(l, a)]
    /\ UNCHANGED <<hostels, payments, settingsDocs,
                   nextAllocId, nextPaymentId, clock, observe, started>>

\* the handler called on its own
RevokeStart(p, a) ==
    /\ CanStart(p)
    /\ started' = started + 1
    /\ loc' = [loc EXCEPT ![p] =
                Launch([Idle EXCEPT !.op = "revokeRoomAllocation",
                                      !.pc = "revoking", !.allocationId = a], {a})]
    /\ UNCHANGED <<hostels, allocations, payments, settingsDocs,
                   nextAllocId, nextPaymentId, clock, observe>>

revokeRoomAllocation(p) ==
    \E a \in AllocIds :
        RevokeGet(p, a) \/ RevokeFetch(p, a) \/ RevokeUpdate(p, a) \/ RevokeDelete(p, a)

-----------------------------------------------------------------------------
(* allocateRoom(studentRegNumber, roomId, hostelId) *)

Creating == {q \in Procs : loc[q].op = "allocateRoom" /\ loc[q].pc = "create"}

\* fetchHostelSettings(), then the allocation object is built: with
\* paymentGracePeriod undefined the deadline is an invalid Date and
\* toISOString() throws
AllocStart(p, studentRegNumber, roomId, hostelId) ==
    /\ CanStart(p)
    /\ started' = started + 1
    /\ nextAllocId + Cardinality(Creating) <= MaxAllocs
    /\ LET settings == fetchHostelSettings(settingsDocs)
           l == [Idle EXCEPT !.op = "allocateRoom", !.pc = "create",
                               !.studentRegNumber = studentRegNumber,
                               !.roomId = roomId, !.hostelId = hostelId,
                               !.settings = settings, !.now = clock]
       IN loc' = [loc EXCEPT ![p] =
                    IF "paymentGracePeriod" \in DOMAIN settings
                    THEN l ELSE Finish(l, "error")]
    /\ UNCHANGED <<hostels, allocations, payments, settingsDocs,
                   nextAllocId, nextPaymentId, clock, observe>>

\* faulty variant: the grace period is not added to the deadline
\* (C14_AllocateEffect fails)
newAllocationNoGrace(studentRegNumber, roomId, hostelId, now, grace) ==
    [studentRegNumber |-> studentRegNumber,
     roomId |-> roomId,
     hostelId |-> hostelId,
     allocatedAt |-> now,
     paymentStatus |-> "Pending",
     paymentDeadline |-> now,
     paymentId |-> 0]

\* the allocation object of allocateRoom
newAllocation(studentRegNumber, roomId, hostelId, now, grace) ==
    [studentRegNumber |-> studentRegNumber,
     roomId |-> roomId,
     hostelId |-> hostelId,
     allocatedAt |-> now,
     paymentStatus |-> "Pending",
     paymentDeadline |-> now + grace,
     paymentId |-> 0]

\* databases.createDocument(ROOM_ALLOCATIONS, ID.unique(), allocation)
AllocCreate(p) ==
    /\ loc[p].op = "allocateRoom" /\ loc[p].pc = "create"
    /\ LET l == loc[p]
       IN /\ allocations' = (nextAllocId :>
                newAllocation(l.studentRegNumber, l.roomId, l.hostelId, l.now,
                              l.settings.paymentGracePeriod)) @@ allocations
          /\ nextAllocId' = nextAllocId + 1
          /\ loc' = [loc EXCEPT ![p].pc = "fetch", ![p].allocationId = nextAllocId]
    /\ UNCHANGED <<hostels, payments, settingsDocs, nextPaymentId, clock, observe, started>>

\* fetchHostelById(hostelId); if (hostel) { ...forEach... }
AllocFetch(p) ==
    /\ loc[p].op = "allocateRoom" /\ loc[p].pc = "fetch"
    /\ LET l == loc[p]
           hostel == fetchHostelById(hostels, l.hostelId)
       IN loc' = [loc EXCEPT ![p] =
                    IF IsNull(hostel) THEN Finish(l, "ok")
                    ELSE [l EXCEPT !.pc = "update",
                                   !.hostel = allocateEdit(hostel, l.roomId,
                                                           l.studentRegNumber)]]
    /\ UNCHANGED <<hostels, allocations, payments, settingsDocs,
                   nextAllocId, nextPaymentId, clock, observe, started>>

\* updateHostel(hostelId, updatedHostel); return
AllocUpdate(p) ==
    /\ loc[p].op = "allocateRoom" /\ loc[p].pc = "update"
    /\ hostels' = updateHostel(hostels, loc[p].hostelId, loc[p].hostel)
    /\ loc' = [loc EXCEPT ![p] = Finish(loc[p], "ok")]
    /\ UNCHANGED <<allocations, payments, settingsDocs,
                   nextAllocId, nextPaymentId, clock, observe, started>>

allocateRoom(p, students, rooms) ==
    \/ \E s \in students, r \in rooms : AllocStart(p, s, r, HostelId)
    \/ AllocCreate(p)
    \/ AllocFetch(p)
    \/ AllocUpdate(p)

-----------------------------------------------------------------------------
(* checkAndUpdateOverduePayments() *)

\* faulty variant: the status filter is missing, so a Paid allocation past its
\* deadline is marked Overdue (C8_StatusTransitions fails)
overdueAllocationsAnyStatus(allocs, listed, now) ==
    {a \in Range(listed) : allocs[a].paymentDeadline < now}

\* allocations.filter(a => a.paymentStatus === 'Pending' && deadline < now)
overdueAllocations(allocs, listed, now) ==
    {a \in Range(listed) :
        allocs[a].paymentStatus = "Pending" /\ allocs[a].paymentDeadline < now}

\* now = new Date(); fetchRoomAllocations(); filter
SweepBegin(p) ==
    /\ IsIdle(p)
    /\ LET overdue == overdueAllocations(allocations,
                                         fetchRoomAllocations(allocations), clock)
       IN loc' = [loc EXCEPT ![p] =
                    [Idle EXCEPT !.op = "checkAndUpdateOverduePayments",
                                   !.pc = IF overdue = {} THEN "settings" ELSE "mark",
                                   !.now = clock,
                                   !.overdue = overdue,
                                   !.marking = overdue]]
    /\ UNCHANGED <<hostels, allocations, payments, settingsDocs,
                   nextAllocId, nextPaymentId, clock, observe>>

\* the sweep as one of the requests counted by `started`
SweepStart(p) ==
    /\ CanStart(p)
    /\ started' = started + 1
    /\ SweepBegin(p)

\* the sweep run by the scheduler again and again
SweepAgain(p) ==
    /\ SweepBegin(p)
    /\ UNCHANGED started

\* one updateRoomAllocation(id, {paymentStatus: 'Overdue'}) of the Promise.all;
\* it throws when the document is gone
SweepMark(p, a) ==
    /\ loc[p].op = "checkAndUpdateOverduePayments" /\ loc[p].pc = "mark"
    /\ a \in loc[p].marking
    /\ LET found == a \in DOMAIN allocations
           l == [loc[p] EXCEPT !.marking = @ \ {a},
                               !.failed = @ \/ ~found]
       IN /\ allocations' =
                IF found
                THEN updateRoomAllocation(allocations, a, [paymentStatus |-> "Overdue"])
                ELSE allocations
          /\ loc' = [loc EXCEPT ![p] =
                IF l.marking # {} THEN l
                ELSE IF l.failed THEN Finish(l, "error")
                ELSE [l EXCEPT !.pc = "settings"]]
    /\ UNCHANGED <<hostels, payments, settingsDocs, nextAllocId, nextPaymentId, clock, observe, started>>

\* fetchHostelSettings(); if (settings.autoRevokeUnpaidAllocations) revoke all
SweepSettings(p) ==
    /\ loc[p].op = "checkAndUpdateOverduePayments" /\ loc[p].pc = "settings"
    /\ LET l == loc[p]
           settings == fetchHostelSettings(settingsDocs)
       IN loc' = [loc EXCEPT ![p] =
                    IF autoRevoke(settings) /\ l.overdue # {}
                    THEN Launch([l EXCEPT !.pc = "revoking"], l.overdue)
                    ELSE Finish(l, "ok")]
    /\ UNCHANGED <<hostels, allocations, payments, settingsDocs,
                   nextAllocId, nextPaymentId, clock, observe, started>>

checkAndUpdateOverduePayments(p) ==
    \/ SweepStart(p)
    \/ \E a \in AllocIds : SweepMark(p, a)
    \/ SweepSettings(p)

-----------------------------------------------------------------------------
(* POST of the payment-deadline endpoint *)

DefaultToken == "default-secure-token"

\* process.env.PAYMENT_CHECK_TOKEN || 'default-secure-token'
expectedToken(envToken) == IF envToken = "" THEN DefaultToken ELSE envToken

\* faulty variant: the bare token is accepted as well (C19_Unauthorized fails)
authorizedBareToken(envToken, authHeader) ==
    authHeader \in {"Bearer " \o expectedToken(envToken), expectedToken(envToken)}

\* authHeader === `Bearer ${expectedToken}`
authorized(envToken, authHeader) == authHeader = "Bearer " \o expectedToken(envToken)

\* faulty variant: the second grace window is not added
\* (C24_PostSelection fails)
expiredAllocationsNoGrace(allocs, listed, now, grace) ==
    {a \in Range(listed) :
        /\ allocs[a].paymentStatus \in {"Pending", "Overdue"}
        /\ now > allocs[a].paymentDeadline}

\* unpaid allocations with now > paymentDeadline + paymentGracePeriod hours
expiredAllocations(allocs, listed, now, grace) ==
    {a \in Range(listed) :
        /\ allocs[a].paymentStatus \in {"Pending", "Overdue"}
        /\ now > allocs[a].paymentDeadline + grace}

\* the token check, then getHostelSettings(); the answer of the previous call
\* (lastOp, lastResult, lastCount, lastNow) stays visible while this one runs
PostStart(p, envToken, authHeader) ==
    /\ CanStart(p)
    /\ started' = started + 1
    /\ LET l == [loc[p] EXCEPT !.op = "POST", !.now = clock]
           settings == getHostelSettings(settingsDocs)
       IN loc' = [loc EXCEPT ![p] =
                    IF ~authorized(envToken, authHeader) THEN Finish(l, "401")
                    ELSE IF ~autoRevoke(settings) THEN FinishCount(l, "200", 0)
                    ELSE [l EXCEPT !.pc = "list", !.settings = settings]]
    /\ UNCHANGED <<hostels, allocations, payments, settingsDocs,
                   nextAllocId, nextPaymentId, clock, observe>>

\* fetchAllRoomAllocations(), the two filters, and the revocations are started
PostList(p) ==
    /\ loc[p].op = "POST" /\ loc[p].pc = "list"
    /\ LET l == loc[p]
           expired == expiredAllocations(allocations,
                          fetchRoomAllocations(allocations), l.now,
                          l.settings.paymentGracePeriod)
       IN loc' = [loc EXCEPT ![p] =
                    IF expired = {} THEN FinishCount(l, "200", 0)
                    ELSE Launch([l EXCEPT !.pc = "revoking", !.overdue = expired],
                                expired)]
    /\ UNCHANGED <<hostels, allocations, payments, settingsDocs,
                   nextAllocId, nextPaymentId, clock, observe, started>>

ConfiguredToken == "secret"

POST(p) ==
    \/ PostStart(p, ConfiguredToken, "Bearer " \o ConfiguredToken)
    \/ PostList(p)

\* values of PAYMENT_CHECK_TOKEN ("" when unset) and of the Authorization
\* header ("" when missing)
EnvTokens == {"", ConfiguredToken}
AuthHeaders == {"", ConfiguredToken, "bearer " \o ConfiguredToken,
                "Bearer " \o ConfiguredToken, "Bearer " \o DefaultToken}

\* POST with any header
PostRequest(p) ==
    \/ \E envToken \in EnvTokens, authHeader \in AuthHeaders :
            PostStart(p, envToken, authHeader)
    \/ PostList(p)

\* the store fails in fetchAllRoomAllocations, which rethrows: the outer catch
\* of POST answers 500
PostListFail(p) ==
    /\ loc[p].op = "POST" /\ loc[p].pc = "list"
    /\ loc' = [loc EXCEPT ![p] = Finish(loc[p], "500")]
    /\ UNCHANGED <<hostels, allocations, payments, settingsDocs,
                   nextAllocId, nextPaymentId, clock, observe, started>>

\* the store fails in one call of revokeRoomAllocation(a): getDocument,
\* updateHostel and deleteDocument rethrow; fetchHostelById answers null and
\* the revocation goes on to delete the record
RevokeFail(p, a) ==
    /\ loc[p].subs[a].pc \in {"get", "fetch", "update", "delete"}
    /\ LET l == [loc[p] EXCEPT !.subs[a].pc =
                    IF @ = "fetch" THEN "delete" ELSE "failed"]
       IN loc' = [loc EXCEPT ![p] = IF l.subs[a].pc = "failed" THEN Settle(l, a) ELSE l]
    /\ UNCHANGED <<hostels, allocations, payments, settingsDocs,
                   nextAllocId, nextPaymentId, clock, observe, started>>

-----------------------------------------------------------------------------
(* GET of the payment-deadline endpoint *)

\* getHostelSettings()
GetStart(p) ==
    /\ CanStart(p)
    /\ started' = started + 1
    /\ loc' = [loc EXCEPT ![p] =
                [loc[p] EXCEPT !.op = "GET", !.pc = "list",
                               !.settings = getHostelSettings(settingsDocs)]]
    /\ UNCHANGED <<hostels, allocations, payments, settingsDocs,
                   nextAllocId, nextPaymentId, clock, observe>>

\* fetchAllRoomAllocations(), now = new Date(), the two filters, the answer
\* with the number of expired allocations
GetList(p) ==
    /\ loc[p].op = "GET" /\ loc[p].pc = "list"
    /\ LET l == [loc[p] EXCEPT !.now = clock]
           expired == expiredAllocations(allocations,
                          fetchRoomAllocations(allocations), clock,
                          l.settings.paymentGracePeriod)
       IN loc' = [loc EXCEPT ![p] = FinishCount(l, "200", Cardinality(expired))]
    /\ UNCHANGED <<hostels, allocations, payments, settingsDocs,
                   nextAllocId, nextPaymentId, clock, observe, started>>

GET(p) == GetStart(p) \/ GetList(p)

Tick ==
    /\ clock < MaxClock
    /\ clock' = clock + 1
    /\ UNCHANGED <<hostels, allocations, payments, settingsDocs,
                   nextAllocId, nextPaymentId, loc, observe, started>>

-----------------------------------------------------------------------------
(* Handlers that read the hostel, edit the tree and write it back. *)

\* the write of a handler that has its edited copy: updateHostel(hostelId, hostel)
WriteBack(p, op, next) ==
    /\ loc[p].op = op /\ loc[p].pc = "update"
    /\ hostels' = updateHostel(hostels, loc[p].hostelId, loc[p].hostel)
    /\ loc' = [loc EXCEPT ![p] =
                IF next = "return" THEN Finish(loc[p], "ok")
                ELSE [loc[p] EXCEPT !.pc = next, !.hostel = NullHostel]]
    /\ UNCHANGED <<allocations, payments, settingsDocs,
                   nextAllocId, nextPaymentId, clock, observe, started>>

\* reserveRoom(roomId, hostelId, adminEmail, days)
ReserveStart(p, roomId, hostelId, adminEmail, days) ==
    /\ CanStart(p)
    /\ started' = started + 1
    /\ LET l == [Idle EXCEPT !.op = "reserveRoom", !.pc = "update",
                               !.roomId = roomId, !.hostelId = hostelId]
           hostel == fetchHostelById(hostels, hostelId)
       IN loc' = [loc EXCEPT ![p] =
                    IF IsNull(hostel) THEN Finish(l, "error")
                    ELSE IF ~roomFound(hostel, roomId) THEN Finish(l, "error")
                    ELSE [l EXCEPT !.hostel =
                            reserveEdit(hostel, roomId, adminEmail,
                                        clock + days * HoursPerDay)]]
    /\ UNCHANGED <<hostels, allocations, payments, settingsDocs,
                   nextAllocId, nextPaymentId, clock, observe>>

reserveRoom(p) ==
    \/ \E r \in RoomIds, e \in Admins, d \in 1..MaxDays :
            ReserveStart(p, r, HostelId, e, d)
    \/ WriteBack(p, "reserveRoom", "return")

\* unreserveRoom(roomId, hostelId)
UnreserveStart(p, roomId, hostelId) ==
    /\ CanStart(p)
    /\ started' = started + 1
    /\ LET l == [Idle EXCEPT !.op = "unreserveRoom", !.pc = "update",
                               !.roomId = roomId, !.hostelId = hostelId]
           hostel == fetchHostelById(hostels, hostelId)
       IN loc' = [loc EXCEPT ![p] =
                    IF IsNull(hostel) THEN Finish(l, "error")
                    ELSE IF ~roomFound(hostel, roomId) THEN Finish(l, "error")
                    ELSE [l EXCEPT !.hostel = unreserveEdit(hostel, roomId)]]
    /\ UNCHANGED <<hostels, allocations, payments, settingsDocs,
                   nextAllocId, nextPaymentId, clock, observe>>

unreserveRoom(p) ==
    \/ \E r \in RoomIds : UnreserveStart(p, r, HostelId)
    \/ WriteBack(p, "unreserveRoom", "return")

\* addRoomsInRange(hostelId, floorId, startNumber, endNumber, prefix, suffix, capacity)
AddRoomsStart(p, hostelId, floorId, startNumber, endNumber, prefixSuffix, capacity) ==
    /\ CanStart(p)
    /\ started' = started + 1
    /\ LET l == [Idle EXCEPT !.op = "addRoomsInRange", !.pc = "update",
                               !.hostelId = hostelId, !.floorId = floorId]
           hostel == fetchHostelById(hostels, hostelId)
       IN loc' = [loc EXCEPT ![p] =
                    IF IsNull(hostel) THEN Finish(l, "error")
                    ELSE IF floorIndex(hostel, floorId) = 0 THEN Finish(l, "error")
                    ELSE [l EXCEPT !.hostel =
                            addRoomsEdit(hostel, floorId, startNumber, endNumber,
                                         prefixSuffix, capacity)]]
    /\ UNCHANGED <<hostels, allocations, payments, settingsDocs,
                   nextAllocId, nextPaymentId, clock, observe>>

addRoomsInRange(p) ==
    \/ \E f \in FloorIds, e \in 1..MaxRoomNo, pre \in RoomPrefixes :
            AddRoomsStart(p, HostelId, f, 1, e, <<pre, RoomSuffix>>, MaxCapacity)
    \/ WriteBack(p, "addRoomsInRange", "return")

\* addFloorToHostel(hostelId, floorNumber, floorName)
AddFloorStart(p, hostelId, floorNumber, floorName) ==
    /\ CanStart(p)
    /\ started' = started + 1
    /\ LET l == [Idle EXCEPT !.op = "addFloorToHostel", !.pc = "update",
                               !.hostelId = hostelId]
           hostel == fetchHostelById(hostels, hostelId)
       IN loc' = [loc EXCEPT ![p] =
                    IF IsNull(hostel) THEN Finish(l, "error")
                    ELSE IF floorExists(hostel, floorNumber, floorName)
                         THEN Finish(l, "error")
                    ELSE [l EXCEPT !.hostel = addFloorEdit(hostel, floorNumber, floorName)]]
    /\ UNCHANGED <<hostels, allocations, payments, settingsDocs,
                   nextAllocId, nextPaymentId, clock, observe>>

FloorName(floorNumber) == "Floor " \o floorNumber

addFloorToHostel(p) ==
    \/ \E n \in FloorNumbers : AddFloorStart(p, HostelId, n, FloorName(n))
    \/ WriteBack(p, "addFloorToHostel", "return")

\* The cleanup of removeRoom and removeFloor: fetchRoomAllocations(), the filter
\* on the removed room ids, and the loop of revocations
CleanupList(p) ==
    /\ loc[p].op \in {"removeRoom", "removeFloor"} /\ loc[p].pc = "list"
    /\ LET l == loc[p]
           listed == fetchRoomAllocations(allocations)
           hit == Filter(listed, {a \in DOMAIN allocations :
                                    allocations[a].roomId \in l.roomIds})
       IN loc' = [loc EXCEPT ![p] =
                    IF hit = <<>> THEN Finish(l, "ok")
                    ELSE Launch([l EXCEPT !.pc = "cleanup", !.todo = Tail(hit)],
                                {Head(hit)})]
    /\ UNCHANGED <<hostels, allocations, payments, settingsDocs,
                   nextAllocId, nextPaymentId, clock, observe, started>>

\* faulty variant: the failure of the listing is thrown to the caller
\* (C25_BestEffortCleanup fails)
CleanupListThrows(p) ==
    /\ loc[p].op \in {"removeRoom", "removeFloor"} /\ loc[p].pc = "list"
    /\ loc' = [loc EXCEPT ![p] = Finish(loc[p], "error")]
    /\ UNCHANGED <<hostels, allocations, payments, settingsDocs,
                   nextAllocId, nextPaymentId, clock, observe, started>>

\* the store fails in fetchRoomAllocations, which answers []: nothing to revoke
CleanupListFail(p) ==
    /\ loc[p].op \in {"removeRoom", "removeFloor"} /\ loc[p].pc = "list"
    /\ loc' = [loc EXCEPT ![p] = Finish(loc[p], "ok")]
    /\ UNCHANGED <<hostels, allocations, payments, settingsDocs,
                   nextAllocId, nextPaymentId, clock, observe, started>>

\* removeRoom(hostelId, roomId)
RemoveRoomStart(p, hostelId, roomId) ==
    /\ CanStart(p)
    /\ started' = started + 1
    /\ LET l == [Idle EXCEPT !.op = "removeRoom", !.pc = "update",
                               !.hostelId = hostelId, !.roomId = roomId,
                               !.roomIds = {roomId}]
           hostel == fetchHostelById(hostels, hostelId)
       IN loc' = [loc EXCEPT ![p] =
                    IF IsNull(hostel) THEN Finish(l, "error")
                    ELSE IF ~roomFound(hostel, roomId) THEN Finish(l, "error")
                    ELSE [l EXCEPT !.hostel = removeRoomEdit(hostel, roomId)]]
    /\ UNCHANGED <<hostels, allocations, payments, settingsDocs,
                   nextAllocId, nextPaymentId, clock, observe>>

removeRoom(p) ==
    \/ \E r \in RoomIds : RemoveRoomStart(p, HostelId, r)
    \/ WriteBack(p, "removeRoom", "list")

\* removeFloor(hostelId, floorId)
RemoveFloorStart(p, hostelId, floorId) ==
    /\ CanStart(p)
    /\ started' = started + 1
    /\ LET l == [Idle EXCEPT !.op = "removeFloor", !.pc = "update",
                               !.hostelId = hostelId, !.floorId = floorId]
           hostel == fetchHostelById(hostels, hostelId)
       IN loc' = [loc EXCEPT ![p] =
                    IF IsNull(hostel) THEN Finish(l, "error")
                    ELSE IF floorIndex(hostel, floorId) = 0 THEN Finish(l, "error")
                    ELSE [l EXCEPT !.hostel = removeFloorEdit(hostel, floorId),
                                   !.roomIds = floorRoomIds(hostel, floorId)]]
    /\ UNCHANGED <<hostels, allocations, payments, settingsDocs,
                   nextAllocId, nextPaymentId, clock, observe>>

removeFloor(p) ==
    \/ \E f \in FloorIds : RemoveFloorStart(p, HostelId, f)
    \/ WriteBack(p, "removeFloor", "list")

\* removeOccupantFromRoom(hostelId, roomId, regNumber)
RemoveOccupantStart(p, hostelId, roomId, regNumber) ==
    /\ CanStart(p)
    /\ started' = started + 1
    /\ LET l == [Idle EXCEPT !.op = "removeOccupantFromRoom", !.pc = "update",
                               !.hostelId = hostelId, !.roomId = roomId,
                               !.studentRegNumber = regNumber]
           hostel == fetchHostelById(hostels, hostelId)
       IN loc' = [loc EXCEPT ![p] =
                    IF IsNull(hostel) THEN Finish(l, "error")
                    ELSE IF ~occupantInRoom(hostel, roomId, regNumber)
                         THEN Finish(l, "error")
                    ELSE [l EXCEPT !.hostel = removeOccupantEdit(hostel, roomId, regNumber)]]
    /\ UNCHANGED <<hostels, allocations, payments, settingsDocs,
                   nextAllocId, nextPaymentId, clock, observe>>

\* fetchAllocationByStudent(regNumber); revoke it when it is for this room
RemoveOccupantFind(p) ==
    /\ loc[p].op = "removeOccupantFromRoom" /\ loc[p].pc = "find"
    /\ LET l == loc[p]
           a == fetchAllocationByStudent(allocations, l.studentRegNumber)
       IN loc' = [loc EXCEPT ![p] =
                    IF a # 0 /\ allocations[a].roomId = l.roomId
                    THEN Launch([l EXCEPT !.pc = "cleanup"], {a})
                    ELSE Finish(l, "ok")]
    /\ UNCHANGED <<hostels, allocations, payments, settingsDocs,
                   nextAllocId, nextPaymentId, clock, observe, started>>

removeOccupantFromRoom(p) ==
    \/ \E r \in RoomIds, s \in Students : RemoveOccupantStart(p, HostelId, r, s)
    \/ WriteBack(p, "removeOccupantFromRoom", "find")
    \/ RemoveOccupantFind(p)

\* fetchHostelById(hostelId) called on its own; the answer stays in
\* loc[p].hostel
FetchHostel(p, hostelId) ==
    /\ CanStart(p)
    /\ started' = started + 1
    /\ LET hostel == fetchHostelById(hostels, hostelId)
       IN loc' = [loc EXCEPT ![p] =
                    [Finish([Idle EXCEPT !.op = "fetchHostelById"],
                            IF IsNull(hostel) THEN "null" ELSE "hostel")
                        EXCEPT !.hostel = hostel, !.hostelId = hostelId]]
    /\ UNCHANGED <<hostels, allocations, payments, settingsDocs,
                   nextAllocId, nextPaymentId, clock, observe>>

\* updateHostel(hostelId, updates) called by an editor of the hostel's own
\* fields
HostelEdits == {[name |-> "Falcon"], [isActive |-> FALSE]}

EditHostel(p, hostelId, updates) ==
    /\ CanStart(p)
    /\ started' = started + 1
    /\ hostelId \in DOMAIN hostels
    /\ hostels' = updateHostel(hostels, hostelId, updates)
    /\ loc' = [loc EXCEPT ![p] = Finish([Idle EXCEPT !.op = "updateHostel"], "ok")]
    /\ UNCHANGED <<allocations, payments, settingsDocs,
                   nextAllocId, nextPaymentId, clock, observe>>

\* the settings object of the admin form
hostelSettings(grace, auto) ==
    [paymentGracePeriod |-> grace, autoRevokeUnpaidAllocations |-> auto]

\* updateHostelSettings(settings), either module's
UpdateSettings(p, module, settings) ==
    /\ CanStart(p)
    /\ started' = started + 1
    /\ settingsDocs' = IF module = "appwrite-hostel-data"
                       THEN updateHostelSettingsHostelData(settingsDocs, settings)
                       ELSE updateHostelSettingsSettingsData(settingsDocs, settings)
    /\ loc' = [loc EXCEPT ![p] =
                Finish([Idle EXCEPT !.op = "updateHostelSettings"], "ok")]
    /\ UNCHANGED <<hostels, allocations, payments,
                   nextAllocId, nextPaymentId, clock, observe>>

-----------------------------------------------------------------------------
(* Payments *)

\* updateDocument on a payment: only the supplied fields are written
updatePayment(pays, paymentId, updates) ==
    [pays EXCEPT ![paymentId] =
        [k \in DOMAIN pays[paymentId] |->
            IF k \in DOMAIN updates THEN updates[k] ELSE pays[paymentId][k]]]

newPayment(studentRegNumber, allocationId, receiptNumber, now, status, approvedBy) ==
    [studentRegNumber |-> studentRegNumber,
     allocationId |-> allocationId,
     receiptNumber |-> receiptNumber,
     submittedAt |-> now,
     status |-> status,
     approvedBy |-> approvedBy,
     approvedAt |-> IF status = "Approved" THEN now ELSE -1,
     rejectionReason |-> ""]

\* submitPayment(payment)
submitPayment(p, studentRegNumber, allocationId, receiptNumber) ==
    /\ CanStart(p)
    /\ started' = started + 1
    /\ nextPaymentId <= MaxPayments
    /\ payments' = (nextPaymentId :>
            newPayment(studentRegNumber, allocationId, receiptNumber, clock,
                       "Pending", "")) @@ payments
    /\ nextPaymentId' = nextPaymentId + 1
    /\ loc' = [loc EXCEPT ![p] = Finish([Idle EXCEPT !.op = "submitPayment"], "ok")]
    /\ UNCHANGED <<hostels, allocations, settingsDocs, nextAllocId, clock, observe>>

\* updateStudentPayment(paymentId, {receiptNumber})
updateStudentPayment(p, paymentId, receiptNumber) ==
    /\ CanStart(p)
    /\ started' = started + 1
    /\ LET found == paymentId \in DOMAIN payments
       IN /\ payments' = IF found
                         THEN updatePayment(payments, paymentId,
                                            [receiptNumber |-> receiptNumber])
                         ELSE payments
          /\ loc' = [loc EXCEPT ![p] =
                        Finish([Idle EXCEPT !.op = "updateStudentPayment"],
                               IF found THEN "ok" ELSE "error")]
    /\ UNCHANGED <<hostels, allocations, settingsDocs, nextAllocId, nextPaymentId, clock, observe>>

\* approvePayment(paymentId, adminEmail): getDocument
ApproveGet(p, paymentId, adminEmail) ==
    /\ CanStart(p)
    /\ started' = started + 1
    /\ LET l == [Idle EXCEPT !.op = "approvePayment", !.pc = "approve",
                               !.paymentId = paymentId, !.adminEmail = adminEmail]
       IN loc' = [loc EXCEPT ![p] =
                    IF paymentId \in DOMAIN payments
                    THEN [l EXCEPT !.allocationId = payments[paymentId].allocationId]
                    ELSE Finish(l, "error")]
    /\ UNCHANGED <<hostels, allocations, payments, settingsDocs,
                   nextAllocId, nextPaymentId, clock, observe>>

\* faulty variant: the approver is not recorded (C18_ApproveOrder fails)
approvedFieldsNoApprover(adminEmail, now) ==
    [status |-> "Approved", approvedBy |-> "", approvedAt |-> now]

\* { status: 'Approved', approvedBy: adminEmail, approvedAt: now }
approvedFields(adminEmail, now) ==
    [status |-> "Approved", approvedBy |-> adminEmail, approvedAt |-> now]

\* approvePayment: updateDocument(PAYMENTS, paymentId, {Approved, ...})
ApprovePay(p) ==
    /\ loc[p].op = "approvePayment" /\ loc[p].pc = "approve"
    /\ LET l == loc[p]
           found == l.paymentId \in DOMAIN payments
       IN /\ payments' = IF found
                         THEN updatePayment(payments, l.paymentId,
                                            approvedFields(l.adminEmail, clock))
                         ELSE payments
          /\ loc' = [loc EXCEPT ![p] =
                        IF found THEN [l EXCEPT !.pc = "paid"] ELSE Finish(l, "error")]
    /\ UNCHANGED <<hostels, allocations, settingsDocs, nextAllocId, nextPaymentId, clock, observe, started>>

paidFields(paymentId) == [paymentStatus |-> "Paid", paymentId |-> paymentId]

\* updateRoomAllocation(allocationId, {paymentStatus: 'Paid', paymentId}) of
\* approvePayment and addAdminPayment
MarkPaid(p) ==
    /\ loc[p].op \in {"approvePayment", "addAdminPayment"} /\ loc[p].pc = "paid"
    /\ LET l == loc[p]
           found == l.allocationId \in DOMAIN allocations
       IN /\ allocations' = IF found
                            THEN updateRoomAllocation(allocations, l.allocationId,
                                                      paidFields(l.paymentId))
                            ELSE allocations
          /\ loc' = [loc EXCEPT ![p] = Finish(l, IF found THEN "ok" ELSE "error")]
    /\ UNCHANGED <<hostels, payments, settingsDocs, nextAllocId, nextPaymentId, clock, observe, started>>

approvePayment(p) ==
    \/ \E id \in PaymentIds, e \in Admins : ApproveGet(p, id, e)
    \/ ApprovePay(p)
    \/ MarkPaid(p)

rejectedFields(adminEmail, now, rejectionReason) ==
    [status |-> "Rejected", approvedBy |-> adminEmail, approvedAt |-> now,
     rejectionReason |-> rejectionReason]

\* rejectPayment(paymentId, adminEmail, rejectionReason)
rejectPayment(p, paymentId, adminEmail, rejectionReason) ==
    /\ CanStart(p)
    /\ started' = started + 1
    /\ LET found == paymentId \in DOMAIN payments
       IN /\ payments' = IF found
                         THEN updatePayment(payments, paymentId,
                                    rejectedFields(adminEmail, clock, rejectionReason))
                         ELSE payments
          /\ loc' = [loc EXCEPT ![p] =
                        Finish([Idle EXCEPT !.op = "rejectPayment"],
                               IF found THEN "ok" ELSE "error")]
    /\ UNCHANGED <<hostels, allocations, settingsDocs, nextAllocId, nextPaymentId, clock, observe>>

\* addAdminPayment(payment, adminEmail): createDocument with status Approved
AddAdminCreate(p, studentRegNumber, allocationId, receiptNumber, adminEmail) ==
    /\ CanStart(p)
    /\ started' = started + 1
    /\ nextPaymentId <= MaxPayments
    /\ payments' = (nextPaymentId :>
            newPayment(studentRegNumber, allocationId, receiptNumber, clock,
                       "Approved", adminEmail)) @@ payments
    /\ nextPaymentId' = nextPaymentId + 1
    /\ loc' = [loc EXCEPT ![p] =
                [Idle EXCEPT !.op = "addAdminPayment", !.pc = "paid",
                               !.paymentId = nextPaymentId,
                               !.allocationId = allocationId]]
    /\ UNCHANGED <<hostels, allocations, settingsDocs, nextAllocId, clock, observe>>

\* deletePayment(paymentId)
deletePayment(p, paymentId) ==
    /\ CanStart(p)
    /\ started' = started + 1
    /\ LET found == paymentId \in DOMAIN payments
       IN /\ payments' = IF found THEN Remove(payments, paymentId) ELSE payments
          /\ loc' = [loc EXCEPT ![p] =
                        Finish([Idle EXCEPT !.op = "deletePayment"],
                               IF found THEN "ok" ELSE "error")]
    /\ UNCHANGED <<hostels, allocations, settingsDocs, nextAllocId, nextPaymentId, clock, observe>>

\* the student of a payment form is the student of the allocation paid for
StudentOf(allocationId) ==
    IF allocationId \in DOMAIN allocations
    THEN allocations[allocationId].studentRegNumber ELSE "s1"

-----------------------------------------------------------------------------
(* Initial states *)

Rejections == {"unreadable receipt"}

InitialFloors ==
    <<[id |-> Floor1, number |-> "1", name |-> FloorName("1"),
       rooms |-> <<NewRoom(RoomA1, RoomNumber(RoomPrefix, 1, RoomSuffix), 1),
                   NewRoom(RoomA2, RoomNumber(RoomPrefix, 2, RoomSuffix), 2)>>]>>

InitialHostel ==
    [name |-> "Eagle",
     totalCapacity |-> SumCapacity(InitialFloors),
     currentOccupancy |-> 0,
     floors |-> JSONstringify(InitialFloors),
     isActive |-> TRUE]

settingsDocument(grace, auto) ==
    [id |-> HostelSettingsDocumentId,
     paymentGracePeriod |-> grace,
     autoRevokeUnpaidAllocations |-> auto]

\* one hostel with one floor and two empty rooms, no allocation, no payment
InitStore(graces, autos) ==
    /\ hostels = (HostelId :> InitialHostel)
    /\ allocations = EmptyDocs
    /\ payments = EmptyDocs
    /\ \E g \in graces, b \in autos : settingsDocs = <<settingsDocument(g, b)>>
    /\ nextAllocId = 1
    /\ nextPaymentId = 1
    /\ clock = 0
    /\ started = 0
    /\ loc = [p \in Procs |-> Idle]

Init == InitStore({MaxGrace}, {TRUE}) /\ observe = FALSE

InitTimed == InitStore(1..MaxGrace, BOOLEAN) /\ observe = FALSE

\* the state after allocateRoom("s1", RoomA1, "h1") has run alone from Init
InitOccupiedStore(graces, autos) ==
    /\ \E g \in graces, b \in autos :
        /\ settingsDocs = <<settingsDocument(g, b)>>
        /\ allocations = (1 :> newAllocation("s1", RoomA1, HostelId, 0, g))
    /\ hostels = updateHostel((HostelId :> InitialHostel), HostelId,
                    allocateEdit(fetchHostelById((HostelId :> InitialHostel), HostelId),
                                 RoomA1, "s1"))
    /\ payments = EmptyDocs
    /\ nextAllocId = 2
    /\ nextPaymentId = 1
    /\ clock = 0
    /\ started = 0
    /\ loc = [p \in Procs |-> Idle]

InitOccupied == InitOccupiedStore({MaxGrace}, {TRUE}) /\ observe = FALSE

InitOccupiedTimed == InitOccupiedStore(1..MaxGrace, BOOLEAN) /\ observe = FALSE

-----------------------------------------------------------------------------
(* Specifications.  Requests run one at a time when a single process issues  *)
(* them, and interleave at their store calls when several do.                *)

One == {1}

RevokeOp(p) == (\E a \in AllocIds : RevokeStart(p, a)) \/ revokeRoomAllocation(p)

\* allocation and removal handlers, one at a time
NextMirror ==
    \E p \in One :
        \/ allocateRoom(p, Students, RoomIds)
        \/ RevokeOp(p)
        \/ removeOccupantFromRoom(p)
        \/ removeRoom(p) \/ removeFloor(p) \/ CleanupList(p)

SpecMirror == Init /\ [][NextMirror]_vars

\* the handlers that touch occupants, one at a time
NextOccupancy ==
    \E p \in One :
        \/ allocateRoom(p, Students, RoomIds)
        \/ RevokeOp(p)
        \/ removeOccupantFromRoom(p)

SpecOccupancy == Init /\ [][NextOccupancy]_vars

\* occupants and reservations, one at a time
NextAvailability ==
    \E p \in One :
        \/ allocateRoom(p, Students, RoomIds)
        \/ RevokeOp(p)
        \/ removeOccupantFromRoom(p)
        \/ reserveRoom(p) \/ unreserveRoom(p)

SpecAvailability == Init /\ [][NextAvailability]_vars

\* structural edits, interleaved
NextStructure ==
    \E p \in Procs :
        \/ addFloorToHostel(p)
        \/ addRoomsInRange(p)
        \/ removeRoom(p) \/ removeFloor(p) \/ CleanupList(p)
        \/ revokeRoomAllocation(p)

SpecStructure == InitOccupied /\ [][NextStructure]_vars

\* allocations, interleaved
NextAllocate == \E p \in Procs : allocateRoom(p, Students, RoomIds)

SpecAllocate == Init /\ [][NextAllocate]_vars

\* payments, one at a time
NextPayments ==
    \E p \in One :
        \/ \E a \in AllocIds, rc \in Receipts : submitPayment(p, StudentOf(a), a, rc)
        \/ \E id \in PaymentIds, rc \in Receipts : updateStudentPayment(p, id, rc)
        \/ approvePayment(p)
        \/ \E id \in PaymentIds, e \in Admins, r \in Rejections :
                rejectPayment(p, id, e, r)
        \/ \E a \in AllocIds, rc \in Receipts, e \in Admins :
                AddAdminCreate(p, StudentOf(a), a, rc, e)
        \/ \E id \in PaymentIds : deletePayment(p, id)

SpecPayments == InitOccupied /\ [][NextPayments]_vars

\* the life of an allocation, one request at a time
NextLifecycle ==
    \/ Tick
    \/ \E p \in One :
        \/ allocateRoom(p, {"s1"}, {RoomA1})
        \/ RevokeOp(p)
        \/ \E a \in DOMAIN allocations : submitPayment(p, StudentOf(a), a, "rc1")
        \/ approvePayment(p)
        \/ \E a \in DOMAIN allocations, e \in Admins :
                AddAdminCreate(p, StudentOf(a), a, "rc1", e)
        \/ checkAndUpdateOverduePayments(p)
        \/ POST(p)

SpecLifecycle == InitTimed /\ [][NextLifecycle]_vars

\* approval against the sweeps, interleaved
NextRace ==
    \/ Tick
    \/ \E p \in Procs :
        \/ \E a \in DOMAIN allocations : submitPayment(p, StudentOf(a), a, "rc1")
        \/ approvePayment(p)
        \/ checkAndUpdateOverduePayments(p)
        \/ POST(p)
        \/ revokeRoomAllocation(p)

SpecRace == InitOccupiedTimed /\ [][NextRace]_vars

Spec == SpecMirror

-----------------------------------------------------------------------------
(* What the claims speak about. *)

Quiescent == \A p \in Procs : IsIdle(p)

\* the floors tree as stored in the hostel document
StoredFloors(hostelId) == JSONparse(hostels[hostelId].floors).val

StoredRooms(hostelId) ==
    IF hostelId \in DOMAIN hostels THEN AllRooms(StoredFloors(hostelId)) ELSE {}

\* the allocation records of a room
RecordsOf(roomId) == {a \in DOMAIN allocations : allocations[a].roomId = roomId}

\* the student of allocation a is in the stored occupant list of a's room
Mirrored(a) ==
    \E room \in StoredRooms(allocations[a].hostelId) :
        /\ room.id = allocations[a].roomId
        /\ allocations[a].studentRegNumber \in Range(room.occupants)

\* C1: with the handlers run one at a time, the student of every stored
\* allocation is in the occupant list of the allocation's room.
C1_AllocationMirror ==
    Quiescent =>
        \A a \in DOMAIN allocations : Mirrored(a)

\* C2: no room ever holds more occupants than its capacity.
C2_CapacityBound ==
    \A room \in StoredRooms(HostelId) : Len(room.occupants) <= room.capacity

\* C3: however two allocateRoom calls interleave, once they have returned
\* both allocation records are stored, the stored tree holds the student of
\* the call that wrote last, and every stored occupant has an allocation
\* record in that room; the tree need not hold the student of the other call
\* (the witness C3_LostUpdateReached is the lost update of the claim).
C3_LastWriterWins ==
    Quiescent =>
        /\ Cardinality(DOMAIN allocations) = started
        /\ DOMAIN allocations # {} => \E a \in DOMAIN allocations : Mirrored(a)
        /\ \A room \in StoredRooms(HostelId) :
            /\ \A o \in Range(room.occupants) :
                \E a \in RecordsOf(room.id) : allocations[a].studentRegNumber = o
            /\ Len(room.occupants) <= Cardinality(RecordsOf(room.id))

C3_LostUpdateReached ==
    /\ Quiescent
    /\ \E a, b \in DOMAIN allocations, room \in StoredRooms(HostelId) :
        /\ allocations[a].roomId = room.id
        /\ allocations[b].roomId = room.id
        /\ allocations[a].studentRegNumber # allocations[b].studentRegNumber
        /\ room.occupants = <<allocations[b].studentRegNumber>>

\* C4: after allocateRoom, revokeRoomAllocation and removeOccupantFromRoom
\* calls, currentOccupancy is the number of occupants in the tree.
C4_OccupancyCounter ==
    Quiescent =>
        hostels[HostelId].currentOccupancy = SumOccupants(StoredFloors(HostelId))

\* C5: in every state of every sequence and interleaving of addFloorToHostel,
\* addRoomsInRange, removeRoom and removeFloor, the stored totalCapacity is the
\* sum of the capacities of the rooms of the stored tree.
C5_CapacityCounter ==
    hostels[HostelId].totalCapacity = SumCapacity(StoredFloors(HostelId))

\* C6: every room is available exactly when it has a free place and is not
\* reserved.
C6_AvailabilityFlag ==
    Quiescent =>
        \A room \in StoredRooms(HostelId) :
            room.isAvailable <=>
                (Len(room.occupants) < room.capacity /\ ~room.isReserved)

\* C7: every allocation marked Paid has an approved payment that names it.
C7_PaidHasApprovedPayment ==
    Quiescent =>
        \A a \in DOMAIN allocations :
            allocations[a].paymentStatus = "Paid" =>
                \E id \in DOMAIN payments :
                    /\ payments[id].status = "Approved"
                    /\ payments[id].allocationId = a

\* the paymentStatus of allocation a changes in this step from one of `from`
StatusChange(a) ==
    /\ a \in DOMAIN allocations /\ a \in DOMAIN allocations'
    /\ allocations'[a].paymentStatus # allocations[a].paymentStatus

\* C8 as claimed: the paymentStatus of a stored allocation changes only from
\* Pending to Paid or from Pending to Overdue.
C8_OnlyFromPending ==
    [][\A a \in AllocIds :
        StatusChange(a) =>
            /\ allocations[a].paymentStatus = "Pending"
            /\ allocations'[a].paymentStatus \in {"Paid", "Overdue"}]_vars

\* C8 amended: the paymentStatus of a stored allocation changes only from
\* Pending to Paid, from Pending to Overdue, or from Overdue to Paid; it never
\* becomes Pending again and never leaves Paid.
C8_StatusTransitions ==
    [][\A a \in AllocIds :
        StatusChange(a) =>
            \/ /\ allocations[a].paymentStatus = "Pending"
               /\ allocations'[a].paymentStatus \in {"Paid", "Overdue"}
            \/ /\ allocations[a].paymentStatus = "Overdue"
               /\ allocations'[a].paymentStatus = "Paid"]_vars

\* an approval is about to mark an Overdue allocation Paid
C8_OverdueBeingPaid ==
    \E p \in Procs :
        /\ loc[p].op \in {"approvePayment", "addAdminPayment"}
        /\ loc[p].pc = "paid"
        /\ loc[p].allocationId \in DOMAIN allocations
        /\ allocations[loc[p].allocationId].paymentStatus = "Overdue"

\* C9: an allocation that is Paid stays stored and Paid, whatever a sweep that
\* runs beside the approval does.
C9_PaidIsTerminal ==
    [][\A a \in AllocIds :
        (a \in DOMAIN allocations /\ allocations[a].paymentStatus = "Paid") =>
            (a \in DOMAIN allocations' /\ allocations'[a].paymentStatus = "Paid")]_vars

\* C10: a payment that is Approved or Rejected is not changed by a later
\* approvePayment, rejectPayment or updateStudentPayment.
C10_DecisionIsTerminal ==
    [][\A id \in PaymentIds :
        (/\ id \in DOMAIN payments
         /\ payments[id].status \in {"Approved", "Rejected"}
         /\ id \in DOMAIN payments') =>
            payments'[id] = payments[id]]_vars

-----------------------------------------------------------------------------
(* The sweeps, run one call at a time, with their answers recorded. *)

InitTimedObserved == InitStore(1..MaxGrace, BOOLEAN) /\ observe = TRUE

NextSweep ==
    \/ Tick
    \/ \E p \in One :
        \/ allocateRoom(p, Students, RoomIds)
        \/ checkAndUpdateOverduePayments(p)
        \/ POST(p)
        \/ revokeRoomAllocation(p)

SpecSweep == InitTimedObserved /\ [][NextSweep]_vars

StoresUnchanged == UNCHANGED <<hostels, allocations, payments, settingsDocs>>

\* the call before this one was a POST that answered 200
AfterPost(p) == loc[p].lastOp = "POST" /\ loc[p].lastResult = "200"

C12_AutoRevokeComplete ==
    [][\A p \in Procs :
        (/\ loc[p].op \in {"checkAndUpdateOverduePayments", "POST"}
         /\ loc[p].pc = "revoking"
         /\ loc'[p].pc = "idle") =>
            \A a \in loc[p].overdue : \A h \in {loc[p].subs[a].hostelId} :
                /\ a \notin DOMAIN allocations'
                /\ \A room \in StoredRooms(h)' :
                    room.id = loc[p].subs[a].roomId =>
                        loc[p].subs[a].studentRegNumber \notin Range(room.occupants)]_vars

-----------------------------------------------------------------------------
(* Effects of single calls, run one at a time. *)

\* the floors tree stored in hostel document hostelId of hs
FloorsOf(hs, hostelId) == JSONparse(hs[hostelId].floors).val

\* floors with f applied to the rooms whose id is roomId, all else as it was
WithRoom(floors, roomId, f(_)) ==
    [i \in DOMAIN floors |->
        [floors[i] EXCEPT !.rooms =
            [j \in DOMAIN floors[i].rooms |->
                IF floors[i].rooms[j].id = roomId
                THEN f(floors[i].rooms[j]) ELSE floors[i].rooms[j]]]]

\* process p's revokeRoomAllocation(a) takes a step from pc
RevokeStep(p, a, pc) ==
    loc[p].subs[a].pc = pc /\ loc'[p].subs[a].pc # pc

\* C13: revokeRoomAllocation(a) reads without writing; its hostel write leaves
\* the room of the allocation with its previous occupants minus the student and
\* isAvailable = TRUE, every other room and every allocation as they were; its
\* last step deletes allocation a and nothing else.
C13_RevokeEffect ==
    [][\A p \in Procs, a \in AllocIds :
        /\ (RevokeStep(p, a, "get") \/ RevokeStep(p, a, "fetch")) => StoresUnchanged
        /\ RevokeStep(p, a, "update") =>
            /\ \A h \in {loc[p].subs[a].hostelId} :
                FloorsOf(hostels', h) =
                    WithRoom(FloorsOf(hostels, h), loc[p].subs[a].roomId,
                        LAMBDA room :
                            [room EXCEPT
                                !.occupants = SelectSeq(room.occupants,
                                    LAMBDA o : o # loc[p].subs[a].studentRegNumber),
                                !.isAvailable = TRUE])
            /\ UNCHANGED <<allocations, payments, settingsDocs>>
        /\ RevokeStep(p, a, "delete") =>
            /\ DOMAIN allocations' = (DOMAIN allocations) \ {a}
            /\ \A b \in DOMAIN allocations' : allocations'[b] = allocations[b]
            /\ UNCHANGED <<hostels, payments, settingsDocs>>]_vars

\* a revocation has written the tree: the student is out of a room that is
\* still full, and the room is available
C13_RevokedFromFullRoom ==
    \E p \in Procs, a \in AllocIds :
        /\ loc[p].op = "revokeRoomAllocation"
        /\ loc[p].subs[a].pc = "delete"
        /\ \E room \in StoredRooms(loc[p].subs[a].hostelId) :
            /\ room.id = loc[p].subs[a].roomId
            /\ loc[p].subs[a].studentRegNumber \notin Range(room.occupants)
            /\ Len(room.occupants) >= room.capacity
            /\ room.isAvailable

\* C14: allocateRoom creates one allocation record for its student, room and
\* hostel with paymentStatus Pending and paymentDeadline = call time + stored
\* paymentGracePeriod; its hostel write appends the student to the room's
\* occupants and clears isAvailable exactly when the new length >= capacity,
\* every other room as it was.
C14_AllocateEffect ==
    [][\A p \in Procs :
        /\ (loc[p].op = "allocateRoom" /\ loc[p].pc = "create" /\ loc'[p].pc = "fetch") =>
            /\ \E id \in AllocIds \ DOMAIN allocations :
                /\ DOMAIN allocations' = (DOMAIN allocations) \cup {id}
                /\ allocations'[id].studentRegNumber = loc[p].studentRegNumber
                /\ allocations'[id].roomId = loc[p].roomId
                /\ allocations'[id].hostelId = loc[p].hostelId
                /\ allocations'[id].paymentStatus = "Pending"
                /\ allocations'[id].paymentDeadline =
                        loc[p].now + settingsDocs[1].paymentGracePeriod
            /\ \A b \in DOMAIN allocations : allocations'[b] = allocations[b]
            /\ UNCHANGED <<hostels, payments, settingsDocs>>
        /\ (loc[p].op = "allocateRoom" /\ loc[p].pc = "update" /\ loc'[p].pc = "idle") =>
            /\ \A h \in {loc[p].hostelId} :
                FloorsOf(hostels', h) =
                    WithRoom(FloorsOf(hostels, h), loc[p].roomId,
                        LAMBDA room :
                            [room EXCEPT
                                !.occupants = Append(room.occupants,
                                                     loc[p].studentRegNumber),
                                !.isAvailable =
                                    IF Len(room.occupants) + 1 >= room.capacity
                                    THEN FALSE ELSE room.isAvailable])
            /\ UNCHANGED <<allocations, payments, settingsDocs>>]_vars

\* an allocation made after the clock moved, into a room that keeps a free place
C14_AllocatedWithRoomLeft ==
    /\ Quiescent
    /\ \E p \in Procs : loc[p].lastOp = "allocateRoom" /\ loc[p].lastResult = "ok"
    /\ \E a \in DOMAIN allocations, room \in StoredRooms(HostelId) :
        /\ allocations[a].allocatedAt > 0
        /\ allocations[a].paymentStatus = "Pending"
        /\ room.id = allocations[a].roomId
        /\ room.occupants = <<allocations[a].studentRegNumber>>
        /\ Len(room.occupants) < room.capacity
        /\ room.isAvailable

-----------------------------------------------------------------------------
(* Calls with identifiers that do not resolve. *)

MissingHostelId == "h0"

\* the handlers called for a hostel that was never created
unknownHostel(p) ==
    \/ \E s \in Students, r \in RoomIds : AllocStart(p, s, r, MissingHostelId)
    \/ \E r \in RoomIds, e \in Admins, d \in 1..MaxDays :
            ReserveStart(p, r, MissingHostelId, e, d)
    \/ \E r \in RoomIds : UnreserveStart(p, r, MissingHostelId)
    \/ \E f \in FloorIds, e \in 1..MaxRoomNo, pre \in RoomPrefixes :
            AddRoomsStart(p, MissingHostelId, f, 1, e, <<pre, RoomSuffix>>, MaxCapacity)
    \/ \E r \in RoomIds : RemoveRoomStart(p, MissingHostelId, r)
    \/ \E f \in FloorIds : RemoveFloorStart(p, MissingHostelId, f)
    \/ \E r \in RoomIds, s \in Students : RemoveOccupantStart(p, MissingHostelId, r, s)

InitObserved == InitStore({MaxGrace}, {TRUE}) /\ observe = TRUE

\* every handler that takes an identifier, one call at a time
NextNotFound ==
    \E p \in One :
        \/ allocateRoom(p, Students, RoomIds)
        \/ RevokeOp(p)
        \/ reserveRoom(p) \/ unreserveRoom(p)
        \/ addRoomsInRange(p)
        \/ removeRoom(p) \/ removeFloor(p) \/ CleanupList(p)
        \/ removeOccupantFromRoom(p)
        \/ unknownHostel(p)

SpecNotFound == InitObserved /\ [][NextNotFound]_vars

\* the stored hostel has no room roomId / no floor floorId
NoRoom(hostelId, roomId) ==
    \/ hostelId \notin DOMAIN hostels
    \/ \A room \in StoredRooms(hostelId) : room.id # roomId

NoFloor(hostelId, floorId) ==
    \/ hostelId \notin DOMAIN hostels
    \/ \A floor \in Range(StoredFloors(hostelId)) : floor.id # floorId

\* process p answers with an error in this step and no document changes
Rejected(p) ==
    /\ loc'[p].pc = "idle" /\ loc'[p].lastResult = "error"
    /\ StoresUnchanged

\* process p runs op: no document changes in this step, and when the call
\* returns in this step it returns an error
Rejecting(p, op) ==
    loc[p].op = op =>
        /\ StoresUnchanged
        /\ loc'[p].pc = "idle" => loc'[p].lastResult = "error"

\* C15: allocateRoom, revokeRoomAllocation, reserveRoom, unreserveRoom,
\* addRoomsInRange, removeRoom, removeFloor and removeOccupantFromRoom, called
\* with a hostel, floor, room or allocation id that does not resolve, answer
\* with an error and create, update or delete no document.
C15_NotFoundRejected ==
    [][\A p \in Procs :
        /\ \A h \in {HostelId, MissingHostelId} :
            /\ \A r \in RoomIds : NoRoom(h, r) =>
                /\ \A e \in Admins, d \in 1..MaxDays :
                        ReserveStart(p, r, h, e, d) => Rejected(p)
                /\ UnreserveStart(p, r, h) => Rejected(p)
                /\ RemoveRoomStart(p, h, r) => Rejected(p)
                /\ \A s \in Students : RemoveOccupantStart(p, h, r, s) => Rejected(p)
            /\ \A f \in FloorIds : NoFloor(h, f) =>
                /\ \A e \in 1..MaxRoomNo, pre \in RoomPrefixes :
                        AddRoomsStart(p, h, f, 1, e, <<pre, RoomSuffix>>, MaxCapacity)
                            => Rejected(p)
                /\ RemoveFloorStart(p, h, f) => Rejected(p)
        /\ loc[p].allocationId \notin DOMAIN allocations =>
                Rejecting(p, "revokeRoomAllocation")
        /\ NoRoom(loc[p].hostelId, loc[p].roomId) => Rejecting(p, "allocateRoom")]_vars

-----------------------------------------------------------------------------
(* Structural edits, one call at a time. *)

NextRooms ==
    \E p \in One :
        \/ addFloorToHostel(p)
        \/ addRoomsInRange(p)
        \/ removeRoom(p) \/ CleanupList(p)

SpecRooms == Init /\ [][NextRooms]_vars

\* the numbers of startNumber..endNumber whose room number is not in rooms
NumbersToAdd(rooms, startNumber, endNumber, prefix, suffix) ==
    {i \in startNumber..endNumber :
        \A j \in DOMAIN rooms : rooms[j].number # RoomNumber(prefix, i, suffix)}

\* new is old with, on floor floorId, one empty available room of the given
\* capacity appended for every number to add and nothing else changed, and
\* with totalCapacity grown by capacity times the number of rooms added
RoomsAdded(old, new, floorId, startNumber, endNumber, prefix, suffix, capacity) ==
    /\ DOMAIN new.floors = DOMAIN old.floors
    /\ \A i \in DOMAIN old.floors :
        IF old.floors[i].id # floorId THEN new.floors[i] = old.floors[i]
        ELSE LET was == old.floors[i].rooms
                 now == new.floors[i].rooms
                 toAdd == NumbersToAdd(was, startNumber, endNumber, prefix, suffix)
             IN /\ new.floors[i] = [old.floors[i] EXCEPT !.rooms = now]
                /\ Len(now) = Len(was) + Cardinality(toAdd)
                /\ SubSeq(now, 1, Len(was)) = was
                /\ \A n \in toAdd :
                    \E j \in (Len(was) + 1)..Len(now) :
                        /\ now[j].number = RoomNumber(prefix, n, suffix)
                        /\ now[j].capacity = capacity
                        /\ now[j].occupants = <<>>
                        /\ now[j].isAvailable
                        /\ ~now[j].isReserved
                /\ new.totalCapacity = old.totalCapacity + capacity * Cardinality(toAdd)

\* the stored hostel document with its floors parsed
StoredHostel(hs, hostelId) ==
    [floors |-> FloorsOf(hs, hostelId), totalCapacity |-> hs[hostelId].totalCapacity]

\* C16: addRoomsInRange on a floor appends exactly one new empty available room
\* of the given capacity for every i of startNumber..endNumber whose number
\* prefix+i+suffix is not yet on the floor, leaves the existing rooms and the
\* other floors as they were, adds capacity times the number of rooms added
\* to totalCapacity, and stores that tree and that total.
C16_AddRoomsInRange ==
    [][\A p \in Procs :
        /\ \A f \in FloorIds, e \in 1..MaxRoomNo, pre \in RoomPrefixes :
            (/\ AddRoomsStart(p, HostelId, f, 1, e, <<pre, RoomSuffix>>, MaxCapacity)
             /\ loc'[p].pc = "update") =>
                RoomsAdded(StoredHostel(hostels, HostelId), loc'[p].hostel,
                           f, 1, e, pre, RoomSuffix, MaxCapacity)
        /\ (loc[p].op = "addRoomsInRange" /\ loc[p].pc = "update" /\ loc'[p] # loc[p]) =>
            /\ \A h \in {loc[p].hostelId} :
                /\ FloorsOf(hostels', h) = loc[p].hostel.floors
                /\ hostels'[h].totalCapacity = loc[p].hostel.totalCapacity
            /\ UNCHANGED <<allocations, payments, settingsDocs>>]_vars

\* a range that overlaps the floor in part is about to be written: number 1
\* was on the floor and is skipped, number 2 is appended
C16_PartialOverlap ==
    \E p \in Procs, pre \in RoomPrefixes :
        /\ loc[p].op = "addRoomsInRange" /\ loc[p].pc = "update"
        /\ \E i \in DOMAIN StoredFloors(HostelId) :
            LET was == StoredFloors(HostelId)[i].rooms
                now == loc[p].hostel.floors[i].rooms
            IN /\ \E j \in DOMAIN was : was[j].number = RoomNumber(pre, 1, RoomSuffix)
               /\ Len(now) = Len(was) + 1
               /\ now[Len(now)].number = RoomNumber(pre, 2, RoomSuffix)
               /\ loc[p].hostel.totalCapacity =
                    hostels[HostelId].totalCapacity + MaxCapacity

-----------------------------------------------------------------------------
(* Removal of rooms and floors beside allocation. *)

\* removals and allocations, interleaved
NextCascade ==
    \E p \in Procs :
        \/ removeRoom(p) \/ removeFloor(p) \/ CleanupList(p)
        \/ revokeRoomAllocation(p)
        \/ allocateRoom(p, Students, RoomIds)

SpecCascade == InitOccupied /\ [][NextCascade]_vars

\* process p's removeRoom or removeFloor returns normally in this step
RemovalReturns(p) ==
    /\ loc[p].op \in {"removeRoom", "removeFloor"}
    /\ loc[p].pc \in {"list", "cleanup"}
    /\ loc'[p].pc = "idle"

\* C17: when removeRoom or removeFloor returns, no stored allocation has the
\* id of a room it removed, also when allocateRoom calls run beside it.
C17_CascadeComplete ==
    [][\A p \in Procs :
        RemovalReturns(p) =>
            \A a \in DOMAIN allocations' : allocations'[a].roomId \notin loc[p].roomIds]_vars

-----------------------------------------------------------------------------
(* approvePayment, write by write. *)

\* process p's approvePayment leaves pc in this step
ApproveStep(p, pc) ==
    loc[p].op = "approvePayment" /\ loc[p].pc = pc /\ loc'[p].pc # pc

\* docs' is docs with nothing changed outside document id
OnlyChanged(docs, id) ==
    /\ DOMAIN docs' = DOMAIN docs
    /\ \A d \in DOMAIN docs : d # id => docs'[d] = docs[d]

\* C18: approvePayment(paymentId, adminEmail) first writes the payment as
\* Approved with approvedBy = adminEmail, leaving every allocation as it was;
\* its write of the allocation (paymentStatus Paid, paymentId) comes after, when
\* the payment is already stored as Approved by adminEmail.
C18_ApproveOrder ==
    [][\A p \in Procs :
        /\ (ApproveStep(p, "approve") /\ loc[p].paymentId \in DOMAIN payments) =>
            /\ loc'[p].pc = "paid"
            /\ payments'[loc[p].paymentId].status = "Approved"
            /\ payments'[loc[p].paymentId].approvedBy = loc[p].adminEmail
            /\ OnlyChanged(payments, loc[p].paymentId)
            /\ UNCHANGED <<allocations, hostels, settingsDocs>>
        /\ ApproveStep(p, "paid") =>
            /\ payments[loc[p].paymentId].status = "Approved"
            /\ payments[loc[p].paymentId].approvedBy = loc[p].adminEmail
            /\ loc[p].allocationId = payments[loc[p].paymentId].allocationId
            /\ loc[p].allocationId \in DOMAIN allocations =>
                /\ allocations'[loc[p].allocationId].paymentStatus = "Paid"
                /\ allocations'[loc[p].allocationId].paymentId = loc[p].paymentId
                /\ OnlyChanged(allocations, loc[p].allocationId)
            /\ UNCHANGED <<payments, hostels, settingsDocs>>
        /\ (allocations' # allocations /\ loc[p].op = "approvePayment") =>
            ApproveStep(p, "paid")]_vars

\* between the two writes: the payment is Approved, its allocation not yet Paid
C18_ApprovedNotYetPaid ==
    \E p \in Procs :
        /\ loc[p].op = "approvePayment" /\ loc[p].pc = "paid"
        /\ payments[loc[p].paymentId].status = "Approved"
        /\ payments[loc[p].paymentId].approvedBy = loc[p].adminEmail
        /\ loc[p].allocationId \in DOMAIN allocations
        /\ allocations[loc[p].allocationId].paymentStatus = "Pending"

-----------------------------------------------------------------------------
(* The payment-deadline endpoint. *)

\* allocations and requests to the endpoint with any header, one at a time
NextEndpoint ==
    \/ Tick
    \/ \E p \in One :
        \/ allocateRoom(p, {"s1"}, {RoomA1})
        \/ PostRequest(p)
        \/ revokeRoomAllocation(p)
        \/ GET(p)

SpecEndpoint == InitTimedObserved /\ [][NextEndpoint]_vars

\* C19: a POST whose Authorization header is not exactly "Bearer " followed by
\* the expected token (PAYMENT_CHECK_TOKEN, or default-secure-token when that
\* is unset) answers 401 and changes no document; no step of a GET changes a
\* document.
C19_Unauthorized ==
    [][\A p \in Procs :
        /\ \A envToken \in EnvTokens, authHeader \in AuthHeaders :
            (/\ PostStart(p, envToken, authHeader)
             /\ authHeader # "Bearer " \o (IF envToken = "" THEN "default-secure-token"
                                                            ELSE envToken)) =>
                /\ loc'[p].pc = "idle"
                /\ loc'[p].lastOp = "POST" /\ loc'[p].lastResult = "401"
                /\ StoresUnchanged
        /\ (loc[p].op = "GET" \/ loc'[p].op = "GET") => StoresUnchanged]_vars

\* a POST was refused while an allocation was due for revocation
C19_RefusedWithExpired ==
    \E p \in Procs :
        /\ IsIdle(p) /\ loc[p].lastOp = "POST" /\ loc[p].lastResult = "401"
        /\ autoRevoke(getHostelSettings(settingsDocs))
        /\ \E a \in DOMAIN allocations :
            /\ allocations[a].paymentStatus = "Pending"
            /\ loc[p].lastNow > allocations[a].paymentDeadline
                                    + settingsDocs[1].paymentGracePeriod

\* requests with the valid token while store calls may fail
NextFaulty ==
    \/ Tick
    \/ \E p \in One :
        \/ allocateRoom(p, Students, RoomIds)
        \/ POST(p)
        \/ PostListFail(p)
        \/ revokeRoomAllocation(p)
        \/ \E a \in AllocIds : RevokeFail(p, a)

SpecFaulty == InitTimedObserved /\ [][NextFaulty]_vars

\* C20: a POST with the valid token answers 200, also when the store fails
\* while the allocations are listed or while one is revoked.
C20_AlwaysOk ==
    \A p \in Procs : loc[p].lastOp = "POST" => loc[p].lastResult = "200"

-----------------------------------------------------------------------------
(* revokeRoomAllocation while store calls may fail. *)

\* allocations and revocations, one call at a time, store calls may fail
NextRevokeFaulty ==
    \E p \in One :
        \/ allocateRoom(p, Students, RoomIds)
        \/ RevokeOp(p)
        \/ \E a \in AllocIds : RevokeFail(p, a)

SpecRevokeFaulty == Init /\ [][NextRevokeFaulty]_vars

\* the stored tree of hostelId lists studentRegNumber in room roomId
StillListed(hostelId, roomId, studentRegNumber) ==
    /\ hostelId \in DOMAIN hostels
    /\ \E room \in StoredRooms(hostelId) :
        room.id = roomId /\ studentRegNumber \in Range(room.occupants)

\* C21: whenever revokeRoomAllocation deletes the allocation record, also in
\* executions where a store call failed, the stored hostel no longer lists the
\* student in the room of the allocation.
C21_DeletedLast ==
    [][\A p \in Procs, a \in DOMAIN allocations :
        (RevokeStep(p, a, "delete") /\ a \notin DOMAIN allocations') =>
            ~StillListed(allocations[a].hostelId, allocations[a].roomId,
                         allocations[a].studentRegNumber)]_vars

-----------------------------------------------------------------------------
(* Editors of the room tree beside an editor of the hostel's own fields. *)

NextPartial ==
    \E p \in Procs :
        \/ allocateRoom(p, {"s1"}, {RoomA1})
        \/ RevokeOp(p)
        \/ reserveRoom(p) \/ unreserveRoom(p)
        \/ \E u \in HostelEdits : EditHostel(p, HostelId, u)

SpecPartial == Init /\ [][NextPartial]_vars

TreeMutators == {"allocateRoom", "revokeRoomAllocation", "reserveRoom", "unreserveRoom"}

\* C22: a step of allocateRoom, revokeRoomAllocation, reserveRoom or
\* unreserveRoom leaves the stored name and active flag of every hostel as
\* they are, so an edit of those fields committed between the mutator's read
\* and its write is still there after the write.
C22_PartialUpdate ==
    [][(\E p \in Procs : loc[p].op \in TreeMutators /\ loc'[p] # loc[p]) =>
            \A h \in DOMAIN hostels :
                /\ hostels'[h].name = hostels[h].name
                /\ hostels'[h].isActive = hostels[h].isActive]_vars

-----------------------------------------------------------------------------
(* The sweep run periodically. *)

\* allocations, the switch of auto-revoke to enabled, the clock, and the sweep
\* started again whenever it has returned
NextPeriodic ==
    \/ Tick
    \/ \E p \in One :
        \/ allocateRoom(p, {"s1"}, {RoomA1})
        \/ \E g \in 1..MaxGrace :
                UpdateSettings(p, "appwrite-hostel-data", hostelSettings(g, TRUE))
        \/ SweepAgain(p)
        \/ \E a \in AllocIds : SweepMark(p, a)
        \/ SweepSettings(p)
        \/ revokeRoomAllocation(p)

\* the steps of the sweep
Sweeping ==
    \E p \in One :
        \/ SweepAgain(p)
        \/ \E a \in AllocIds : SweepMark(p, a)
        \/ SweepSettings(p)
        \/ revokeRoomAllocation(p)

\* the steps of allocateRoom after its start
Allocating == \E p \in One : AllocCreate(p) \/ AllocFetch(p) \/ AllocUpdate(p)

\* the clock advances, a call that has started goes on to its end, and the
\* sweep keeps running
SpecPeriodic ==
    /\ InitTimed /\ [][NextPeriodic]_vars
    /\ WF_vars(Tick) /\ WF_vars(Allocating) /\ SF_vars(Sweeping)

AutoRevokeOn == autoRevoke(fetchHostelSettings(settingsDocs))

\* C23: with auto-revoke enabled and the sweep run again and again, every
\* allocation whose paymentStatus is Overdue is eventually deleted.
C23_EventuallyRevoked ==
    \A a \in AllocIds :
        (/\ AutoRevokeOn
         /\ a \in DOMAIN allocations
         /\ allocations[a].paymentStatus = "Overdue") ~> (a \notin DOMAIN allocations)

-----------------------------------------------------------------------------
(* What the POST sweep selects. *)

\* allocations, admin payments, both sweeps and the settings form, one call
\* at a time
NextSelection ==
    \/ Tick
    \/ \E p \in One :
        \/ allocateRoom(p, {"s1"}, {RoomA1})
        \/ \E a \in DOMAIN allocations, e \in Admins :
                AddAdminCreate(p, StudentOf(a), a, "rc1", e)
        \/ MarkPaid(p)
        \/ \E g \in 1..MaxGrace, b \in BOOLEAN :
                UpdateSettings(p, "appwrite-hostel-data", hostelSettings(g, b))
        \/ SweepAgain(p)
        \/ \E a \in AllocIds : SweepMark(p, a)
        \/ SweepSettings(p)
        \/ POST(p)
        \/ revokeRoomAllocation(p)

SpecSelection == InitOccupiedTimed /\ [][NextSelection]_vars

\* the revocations process p has started and not yet seen ended
Launched(l) == {a \in AllocIds : l.subs[a].pc # "none"}

\* the stored allocations a sweep at time now must select
DueAt(now) ==
    {a \in DOMAIN allocations :
        /\ allocations[a].paymentStatus \in {"Pending", "Overdue"}
        /\ now > allocations[a].paymentDeadline + settingsDocs[1].paymentGracePeriod}

-----------------------------------------------------------------------------
(* Removal of rooms and floors while the cleanup may fail. *)

NextCleanupFaulty ==
    \E p \in One :
        \/ allocateRoom(p, Students, RoomIds)
        \/ removeRoom(p) \/ removeFloor(p)
        \/ CleanupList(p) \/ CleanupListFail(p)
        \/ revokeRoomAllocation(p)
        \/ \E a \in AllocIds : RevokeFail(p, a)

SpecCleanupFaulty == InitObserved /\ [][NextCleanupFaulty]_vars

\* process p is past the structural write of removeRoom or removeFloor
Cleaning(p) ==
    /\ loc[p].op \in {"removeRoom", "removeFloor"}
    /\ loc[p].pc \in {"list", "cleanup"}

\* C25: once removeRoom or removeFloor has written the tree, every later step
\* of the call, failed or not, leaves the room or floor removed and
\* totalCapacity as written, and the call returns without error.
C25_BestEffortCleanup ==
    [][\A p \in Procs :
        (Cleaning(p) /\ loc'[p] # loc[p]) =>
            \A h \in {loc[p].hostelId} :
                /\ hostels'[h].totalCapacity = hostels[h].totalCapacity
                /\ loc[p].op = "removeRoom" =>
                        \A r \in {loc[p].roomId} : NoRoom(h, r) /\ NoRoom(h, r)'
                /\ loc[p].op = "removeFloor" =>
                        \A f \in {loc[p].floorId} : NoFloor(h, f) /\ NoFloor(h, f)'
                /\ loc'[p].pc = "idle" => loc'[p].lastResult = "ok"]_vars

\* removeRoom of the one-place room has returned without error, the room is
\* gone and the capacity reduced, and an allocation for the room is still
\* stored: its cleanup failed
C25_ReturnedAfterFailedCleanup ==
    \E p \in Procs :
        /\ IsIdle(p) /\ loc[p].lastOp = "removeRoom" /\ loc[p].lastResult = "ok"
        /\ NoRoom(HostelId, RoomA1) /\ ~NoRoom(HostelId, RoomA2)
        /\ hostels[HostelId].totalCapacity = 2
        /\ \E a \in DOMAIN allocations : allocations[a].roomId = RoomA1

-----------------------------------------------------------------------------
(* Loading a hostel whose floors text may not parse. *)

\* what the floors field of a stored hostel document can hold
FloorsTexts == {JSONstringify(InitialFloors), EmptyText, BadText}

InitLoad ==
    /\ \E text \in FloorsTexts :
            hostels = (HostelId :> [InitialHostel EXCEPT !.floors = text])
    /\ allocations = EmptyDocs
    /\ payments = EmptyDocs
    /\ settingsDocs = <<settingsDocument(MaxGrace, TRUE)>>
    /\ nextAllocId = 1
    /\ nextPaymentId = 1
    /\ clock = 0
    /\ started = 0
    /\ loc = [p \in Procs |-> Idle]
    /\ observe = TRUE

NextLoad ==
    \E p \in One :
        \/ \E h \in {HostelId, MissingHostelId} : FetchHostel(p, h)
        \/ allocateRoom(p, Students, RoomIds)
        \/ reserveRoom(p) \/ unreserveRoom(p)

SpecLoad == InitLoad /\ [][NextLoad]_vars

\* process p has just been answered by fetchHostelById for a stored document
\* whose floors text does not parse
LoadedUndecodable(p) ==
    /\ IsIdle(p) /\ loc[p].lastOp = "fetchHostelById"
    /\ loc[p].hostelId \in DOMAIN hostels
    /\ ~JSONparse(hostels[loc[p].hostelId].floors).ok

\* C26: fetchHostelById on a hostel whose stored floors cannot be
\* deserialized answers the hostel with an empty floors sequence.
C26_UndecodableIsEmpty ==
    \A p \in Procs :
        LoadedUndecodable(p) =>
            /\ ~IsNull(loc[p].hostel)
            /\ loc[p].hostel.floors = <<>>

-----------------------------------------------------------------------------
(* Sequences of allocateRoom and revokeRoomAllocation. *)

NextAllocRevoke ==
    \E p \in One :
        \/ allocateRoom(p, Students, RoomIds)
        \/ RevokeOp(p)

SpecAllocRevoke == Init /\ [][NextAllocRevoke]_vars

\* C27: after any sequence of allocateRoom and revokeRoomAllocation calls no
\* two stored allocations have the same studentRegNumber and no room lists a
\* registration number twice.
C27_OneAllocationPerStudent ==
    Quiescent =>
        /\ \A a, b \in DOMAIN allocations :
            allocations[a].studentRegNumber = allocations[b].studentRegNumber => a = b
        /\ \A room \in StoredRooms(HostelId) :
            \A i, j \in DOMAIN room.occupants :
                room.occupants[i] = room.occupants[j] => i = j

-----------------------------------------------------------------------------
(* The two settings modules on one Settings collection. *)

\* SETTINGS_DOCUMENT_ID of appwrite-settings-data
ApplicationLimitsDocumentId == "application-limits"

applicationLimits == [id |-> ApplicationLimitsDocumentId, boyLimit |-> 0]

\* the Settings collection, in listing order: empty, only the application
\* limits, only the hostel settings, or both
SettingsContents ==
    {<<>>, <<applicationLimits>>}
    \cup {<<settingsDocument(g, b)>> : g \in 1..MaxGrace, b \in BOOLEAN}
    \cup {<<applicationLimits, settingsDocument(g, b)>> : g \in 1..MaxGrace, b \in BOOLEAN}

SettingsModules == {"appwrite-hostel-data", "appwrite-settings-data"}

InitSettings ==
    /\ hostels = (HostelId :> InitialHostel)
    /\ allocations = EmptyDocs
    /\ payments = EmptyDocs
    /\ settingsDocs \in SettingsContents
    /\ nextAllocId = 1
    /\ nextPaymentId = 1
    /\ clock = 0
    /\ started = 0
    /\ loc = [p \in Procs |-> Idle]
    /\ observe = TRUE

\* the settings forms and the readers of the settings, one call at a time
NextSettings ==
    \/ Tick
    \/ \E p \in One :
        \/ \E m \in SettingsModules, g \in 1..MaxGrace, b \in BOOLEAN :
                UpdateSettings(p, m, hostelSettings(g, b))
        \/ allocateRoom(p, {"s1"}, {RoomA1})
        \/ POST(p)
        \/ revokeRoomAllocation(p)

SpecSettings == InitSettings /\ [][NextSettings]_vars

\* C28: after updateHostelSettings of either module has completed,
\* fetchHostelSettings and getHostelSettings both answer the paymentGracePeriod
\* and autoRevokeUnpaidAllocations just written, whatever the Settings
\* collection held before.
C28_SettingsReadYourWrites ==
    [][\A p \in Procs, m \in SettingsModules, g \in 1..MaxGrace, b \in BOOLEAN :
        UpdateSettings(p, m, hostelSettings(g, b)) =>
            /\ fetchHostelSettings(settingsDocs') = hostelSettings(g, b)
            /\ getHostelSettings(settingsDocs') = hostelSettings(g, b)]_vars

-----------------------------------------------------------------------------
(* Reservations and allocation. *)

\* C29: no step of allocateRoom adds an occupant to a room whose stored
\* isReserved is true.
C29_ReservedNotAllocated ==
    [][\A p \in Procs :
        (loc[p].op = "allocateRoom" /\ loc'[p] # loc[p]) =>
            \A h \in DOMAIN hostels :
                \A i \in DOMAIN FloorsOf(hostels, h) :
                    \A j \in DOMAIN FloorsOf(hostels, h)[i].rooms :
                        FloorsOf(hostels, h)[i].rooms[j].isReserved =>
                            FloorsOf(hostels', h)[i].rooms[j].occupants =
                                FloorsOf(hostels, h)[i].rooms[j].occupants]_vars

-----------------------------------------------------------------------------
(* The endpoint without a configured secret. *)

\* C30: when PAYMENT_CHECK_TOKEN is not set, every POST answers 401 and
\* changes no document, whatever the Authorization header.
C30_NoSecretNoSweep ==
    [][\A p \in Procs : \A authHeader \in AuthHeaders :
        PostStart(p, "", authHeader) =>
            /\ loc'[p].pc = "idle"
            /\ loc'[p].lastOp = "POST" /\ loc'[p].lastResult = "401"
            /\ StoresUnchanged]_vars

====
